---- MODULE Spec2Model ----
(***************************************************************************)
(* Context-retrieval and request-assembly pipeline of your-bible-app:      *)
(*   - retrieveRagContext / querySimilarDocuments / searchWeb  (lib/rag.ts,*)
(*     lib/supabaseRag.ts, lib/webSearch.ts)                               *)
(*   - POST, extractText                            (app/chat/routes.ts)   *)
(*   - fetchVerse / fetchVerses / fetchRange        (lib/bibleApi.ts)      *)
(* JavaScript strings are modelled as sequences of one-character strings,  *)
(* JavaScript values as tagged records.                                    *)
(***************************************************************************)
EXTENDS Integers, Sequences, FiniteSets, TLC

VARIABLES
    env,        \* process configuration: GEMINI key, supabase.rpc, Bing settings
    ragPc,      \* position of the running retrieveRagContext call
    ragQuery,   \* its query argument
    ragLog,     \* external capabilities it has invoked so far, in order
    vect,       \* what querySimilarDocuments returned (or that it threw)
    textResp,   \* what the full-text query of retrieveRagContext itself returned
    webOut,     \* what searchWeb returned (or that it threw)
    ragResult,  \* the value retrieveRagContext resolved to
    ragThrew,   \* TRUE iff an exception escaped retrieveRagContext
    exPc,       \* "off", "ready" (model response received) or "done" (reply built)
    modelResp,  \* the raw response of the chat model
    exOut,      \* outcome of extractText(modelResp): a string, or a thrown exception
    httpOut,    \* the HTTP reply built from it by the route
    CACHE,      \* bibleApi.ts: the module-level cache, key -> string
    calls,      \* the bibleApi calls in progress, one frame per slot
    route       \* the POST handler of app/chat/routes.ts: the request in progress

ragVars == <<env, ragPc, ragQuery, ragLog, vect, textResp, webOut, ragResult, ragThrew>>
exVars == <<exPc, modelResp, exOut, httpOut, route>>

bibleVars == <<CACHE, calls>>

vars == <<ragVars, exVars, bibleVars>>

----------------------------------------------------------------------------
(* Bounds of the model *)

MaxRows == 4        \* rows in one vector / full-text response
MaxWebItems == 4    \* items in one web-search response
MaxEntries == 2     \* entries of the output array of a model response
MaxSlots == 2       \* bibleApi calls whose frames are kept together
MaxChapter == 3     \* chapters named by the range inputs
MaxVerse == 2       \* verses named by the range inputs
MaxList == 2        \* references in one fetchVerses input
MaxWarm == 1        \* entries the cache may hold when a new call starts
MaxRouteRows == 1   \* rows or items one tier returns while a request is served

----------------------------------------------------------------------------
(* JavaScript values *)

JNull == [t |-> "null"]
JUndef == [t |-> "undef"]
JStr(s) == [t |-> "str", s |-> s]
JNum(n) == [t |-> "num", n |-> n]
JArr(a) == [t |-> "arr", a |-> a]
JObj(f) == [t |-> "obj", f |-> f]

IsStr(x) == x.t = "str"
IsArr(x) == x.t = "arr"
\* typeof x === 'object' && x !== null
IsObject(x) == x.t \in {"obj", "arr"}
\* property read x.name on a value that is neither null nor undefined
Get(x, name) ==
    IF x.t = "obj" /\ name \in DOMAIN x.f THEN x.f[name] ELSE JUndef

SeqsUpTo(S, n) == UNION {[1..k -> S] : k \in 0..n}

IsSpace(c) == c \in {" ", "\t", "\n"}

RECURSIVE TrimStart(_)
TrimStart(s) ==
    IF s # <<>> /\ IsSpace(Head(s)) THEN TrimStart(Tail(s)) ELSE s

RECURSIVE TrimEnd(_)
TrimEnd(s) ==
    IF s # <<>> /\ IsSpace(s[Len(s)]) THEN TrimEnd(SubSeq(s, 1, Len(s) - 1)) ELSE s

\* String.prototype.trim
Trim(s) == TrimEnd(TrimStart(s))

\* Array.prototype.slice(0, n)
Take(s, n) == SubSeq(s, 1, IF Len(s) < n THEN Len(s) ELSE n)

\* r => ({..}) applied to every element: Array.prototype.map
MapSeq(s, F(_)) == [i \in 1..Len(s) |-> F(s[i])]

\* typeof c === 'string' && c.trim().length > 0
NonEmptyString(c) == IsStr(c) /\ Len(Trim(c.s)) > 0

EmptyFields == [x \in {} |-> JNull]

----------------------------------------------------------------------------
(* lib/bibleApi.ts: the cache and the frame of one call *)

Slots == 1..MaxSlots

\* const CACHE: Record<string, string> = {}
EmptyCache == [k \in {} |-> <<>>]

\* no range expression matched
NoMatch == [kind |-> "none"]

NoIntent == [form |-> "none"]

\* the frame of a call: op and intent name the call and its argument, m is the
\* matched range, need the chapters whose length is still to be found, list the
\* references handed to fetchVerses, pending the indices of list whose GET is in
\* flight, issued the references requested from the service so far, results the
\* result object as [key, val] in key order, ret the value of a fetchVerse, warm
\* the cache as the call's fetchVerses / fetchVerse found it, seen the frames of
\* the calls that had already settled when this one began, outcome how the GET of
\* a fetchVerse call ended
CallIdle ==
    [op |-> "none", pc |-> "idle", intent |-> NoIntent, m |-> NoMatch,
     need |-> <<>>, list |-> <<>>, pending |-> {}, issued |-> <<>>,
     results |-> <<>>, ret |-> JUndef, warm |-> EmptyCache, seen |-> {},
     outcome |-> "none"]

\* the POST handler between two requests
\* (rangeRef and verseRef are the references the two patterns find in the question,
\* snippets, web and map the values of ragSnippets, web and the fetched map, log the
\* capabilities invoked so far, history the messages handed to the model, flag the
\* devMock value of the body as it was posted)
RouteIdle ==
    [pc |-> "idle", server |-> "production", error |-> "none", question |-> <<>>,
     contents |-> <<>>, devMock |-> FALSE, flag |-> JUndef,
     rangeRef |-> JNull, verseRef |-> JNull,
     messages |-> <<>>, snippets |-> <<>>, web |-> <<>>, map |-> <<>>,
     log |-> <<>>, history |-> <<>>]

BibleOff ==
    /\ CACHE = EmptyCache
    /\ calls = [s \in Slots |-> CallIdle]

----------------------------------------------------------------------------
(* lib/supabaseRag.ts: querySimilarDocuments; lib/rag.ts: retrieveRagContext *)

\* topK passed by retrieveRagContext, and its own slice(0, 3)
RagTopK == 3

Queries == {<<>>, <<"q">>}

\* rows a match_documents RPC may return (typed any)
VectorRows ==
    { JNull,
      JObj([content |-> JStr(<<"a">>)]),
      JObj([content |-> JNull, text |-> JStr(<<" ", "b">>)]),
      JObj([content |-> JStr(<<" ">>)]) }

\* the content column of a documents row: string | null
TextContents == {JNull, JStr(<<" ">>), JStr(<<"a">>), JStr(<<" ", "b">>)}

EmbedOutcomes == {"throw", "noValues", "values"}

RpcOutcomes ==
    {[k |-> "throw"], [k |-> "malformed"], [k |-> "error"], [k |-> "notArray"]}
    \cup {[k |-> "rows", rows |-> r] : r \in SeqsUpTo(VectorRows, MaxRows)}

\* result of supabase.from('documents').select('content').textSearch(...)
TextResponses ==
    {[k |-> "throw"], [k |-> "malformed"], [k |-> "error"], [k |-> "nodata"]}
    \cup {[k |-> "rows", rows |-> r] : r \in SeqsUpTo(TextContents, MaxRows)}

NoResponse == [k |-> "none"]

RowOf(c) == JObj([content |-> c])
RowUsable(r) == NonEmptyString(Get(r, "content"))

\* supabaseRag.ts, fallback plain-text search of querySimilarDocuments
QsdTextResults(resp, topK) ==
    IF resp.k = "rows"
    THEN Take(SelectSeq(MapSeq(resp.rows, RowOf), RowUsable), topK)
    ELSE <<>>

\* rag.ts, normalisation of one vector row to a string or null
NormalizeVectorRow(r) ==
    IF ~IsObject(r) THEN JNull
    ELSE IF IsStr(Get(r, "content")) THEN Get(r, "content")
    ELSE IF IsStr(Get(r, "text")) THEN Get(r, "text")
    ELSE JNull

VectorTexts(results) ==
    Take(SelectSeq(MapSeq(results, NormalizeVectorRow), NonEmptyString), RagTopK)

\* snippets of the full-text tier cut to three rows before the blank ones are dropped
RagSnippets_CapFirst(resp) ==
    IF resp.k = "rows" THEN SelectSeq(Take(resp.rows, RagTopK), NonEmptyString)
    ELSE <<>>

\* rag.ts, snippets of the full-text tier
RagSnippets(resp) ==
    IF resp.k = "rows" THEN Take(SelectSeq(resp.rows, NonEmptyString), RagTopK)
    ELSE <<>>

----------------------------------------------------------------------------
(* lib/webSearch.ts: searchWeb *)

Dash == <<" ", "-", " ">>   \* the separator of parts.join (an em dash between blanks)

\* items of webPages.value (typed unknown)
WebItems ==
    { JNull,
      JObj([name |-> JNum(1), text |-> JStr(<<" ">>)]),
      JObj([name |-> JStr(<<"T">>), text |-> JStr(<<" ", "x">>), url |-> JStr(<<"u">>)]) }

\* parsed JSON bodies of the search endpoint
WebBodies ==
    { JNull,
      JObj(EmptyFields),
      JObj([webPages |-> JNull]),
      JObj([webPages |-> JObj([value |-> JStr(<<"x">>)])]) }
    \cup {JObj([webPages |-> JObj([value |-> JArr(items)])]) :
              items \in SeqsUpTo(WebItems, MaxWebItems)}

WebHttpOutcomes ==
    {[k |-> "network"], [k |-> "notOk"], [k |-> "badJson"]}
    \cup {[k |-> "json", body |-> b] : b \in WebBodies}

\* typeof v === 'string' ? v.trim() : ''
TrimmedOrEmpty(v) == IF IsStr(v) THEN Trim(v.s) ELSE <<>>

RECURSIVE JoinWith(_, _)
\* Array.prototype.join
JoinWith(parts, sep) ==
    IF parts = <<>> THEN <<>>
    ELSE IF Len(parts) = 1 THEN parts[1]
    ELSE parts[1] \o sep \o JoinWith(Tail(parts), sep)

NonEmptySeq(p) == Len(p) > 0

\* webSearch.ts, the display string of one item ('' when nothing is usable)
WebItemText(item) ==
    LET title == TrimmedOrEmpty(Get(item, "name"))
        snippet == IF IsStr(Get(item, "snippet")) THEN Trim(Get(item, "snippet").s)
                   ELSE TrimmedOrEmpty(Get(item, "text"))
        url == IF IsStr(Get(item, "url")) THEN Trim(Get(item, "url").s)
               ELSE TrimmedOrEmpty(Get(item, "displayUrl"))
    IN  JoinWith(SelectSeq(<<title, snippet, url>>, NonEmptySeq), Dash)

RECURSIVE WebResults(_)
\* webSearch.ts, the loop over maybePages.slice(0, topK)
WebResults(items) ==
    IF items = <<>> THEN <<>>
    ELSE LET item == Head(items)
             joined == IF IsObject(item) THEN WebItemText(item) ELSE <<>>
         IN  (IF IsObject(item) /\ Len(Trim(joined)) > 0 THEN <<JStr(joined)>> ELSE <<>>)
             \o WebResults(Tail(items))

\* webSearch.ts, what searchWeb returns once the HTTP exchange has ended
SearchWebParse(http, topK) ==
    IF http.k # "json" THEN <<>>
    ELSE IF http.body = JNull THEN <<>>
    ELSE LET pages == Get(http.body, "webPages")
             value == IF pages \in {JNull, JUndef} THEN JUndef ELSE Get(pages, "value")
         IN  IF ~IsArr(value) THEN <<>> ELSE WebResults(Take(value.a, topK))

----------------------------------------------------------------------------
(* One call of retrieveRagContext as a state machine; a step ends at each await *)

RagState ==
    [pc |-> ragPc, log |-> ragLog, vect |-> vect, textResp |-> textResp,
     webOut |-> webOut, result |-> ragResult, threw |-> ragThrew]

SetRag(r) ==
    /\ ragPc' = r.pc
    /\ ragLog' = r.log
    /\ vect' = r.vect
    /\ textResp' = r.textResp
    /\ webOut' = r.webOut
    /\ ragResult' = r.result
    /\ ragThrew' = r.threw

RagIdle ==
    [pc |-> "idle", log |-> <<>>, vect |-> NoResponse, textResp |-> NoResponse,
     webOut |-> NoResponse, result |-> <<>>, threw |-> FALSE]

\* return <list> from retrieveRagContext
RagReturn(r, list) == [r EXCEPT !.pc = "done", !.result = list]

\* a searchWeb that sends its request whether or not a provider is configured
CallSearchWeb_NoConfigCheck(r, q) ==
    LET r1 == [r EXCEPT !.log = Append(@, "searchWeb")]
    IN  IF q = <<>>
        THEN RagReturn([r1 EXCEPT !.webOut = [k |-> "threw"]], <<>>)
        ELSE [r1 EXCEPT !.log = Append(@, "fetch"), !.pc = "webHttp"]

\* a searchWeb that looks at its configuration before it looks at the query
CallSearchWeb_ConfigFirst(r, q) ==
    LET r1 == [r EXCEPT !.log = Append(@, "searchWeb")]
    IN  IF ~env.web
        THEN RagReturn([r1 EXCEPT !.webOut = [k |-> "list", v |-> <<>>]], <<>>)
        ELSE IF q = <<>>
        THEN RagReturn([r1 EXCEPT !.webOut = [k |-> "threw"]], <<>>)
        ELSE [r1 EXCEPT !.log = Append(@, "fetch"), !.pc = "webHttp"]

\* rag.ts: try { const web = await searchWeb(query, 3); return web } catch { return [] }
\* with the synchronous head of searchWeb (webSearch.ts: query check, configuration)
CallSearchWeb(r, q) ==
    LET r1 == [r EXCEPT !.log = Append(@, "searchWeb")]
    IN  IF q = <<>>
        THEN RagReturn([r1 EXCEPT !.webOut = [k |-> "threw"]], <<>>)
        ELSE IF ~env.web
        THEN RagReturn([r1 EXCEPT !.webOut = [k |-> "list", v |-> <<>>]], <<>>)
        ELSE [r1 EXCEPT !.log = Append(@, "fetch"), !.pc = "webHttp"]

\* rag.ts: await supabase.from('documents').select('content').textSearch(...)
CallTextTier(r) ==
    [r EXCEPT !.log = Append(@, "rag.textSearch"), !.pc = "ragText"]

\* a vector branch that never returns early
AfterVector_NoEarlyReturn(r, results, via) ==
    CallTextTier([r EXCEPT !.vect = [k |-> "results", results |-> results, via |-> via]])

\* rag.ts: the vector branch, once querySimilarDocuments has resolved
AfterVector(r, results, via) ==
    LET r1 == [r EXCEPT !.vect = [k |-> "results", results |-> results, via |-> via]]
        texts == VectorTexts(results)
    IN  IF Len(results) > 0 /\ Len(texts) > 0
        THEN RagReturn(r1, texts)
        ELSE CallTextTier(r1)

\* supabaseRag.ts: falling through to the plain-text search of querySimilarDocuments
CallQsdText(r) ==
    [r EXCEPT !.log = Append(@, "qsd.textSearch"), !.pc = "qsdText"]

\* a full-text branch that consults the web although it found snippets
AfterText_AlwaysWeb(r, q, resp) ==
    CallSearchWeb([r EXCEPT !.textResp = resp], q)

\* a full-text branch that gives up on a service-level error (no web fallback)
AfterText_ErrorReturnsEmpty(r, q, resp) ==
    LET r1 == [r EXCEPT !.textResp = resp]
        snippets == RagSnippets(resp)
    IN  IF resp.k \in {"throw", "malformed"} THEN CallSearchWeb(r1, q)
        ELSE IF resp.k = "error" THEN RagReturn(r1, <<>>)
        ELSE IF Len(snippets) > 0 THEN RagReturn(r1, snippets)
        ELSE CallSearchWeb(r1, q)

\* a full-text branch without the outer catch
AfterText_NoCatch(r, q, resp) ==
    LET r1 == [r EXCEPT !.textResp = resp]
        snippets == RagSnippets(resp)
    IN  IF resp.k \in {"throw", "malformed"} THEN [r1 EXCEPT !.pc = "done", !.threw = TRUE]
        ELSE IF resp.k = "error" THEN CallSearchWeb(r1, q)
        ELSE IF Len(snippets) > 0 THEN RagReturn(r1, snippets)
        ELSE CallSearchWeb(r1, q)

\* rag.ts: the full-text branch, once the query has settled
AfterText(r, q, resp) ==
    LET r1 == [r EXCEPT !.textResp = resp]
        snippets == RagSnippets(resp)
    IN  IF resp.k \in {"throw", "malformed"} THEN CallSearchWeb(r1, q)
        ELSE IF resp.k = "error" THEN CallSearchWeb(r1, q)
        ELSE IF Len(snippets) > 0 THEN RagReturn(r1, snippets)
        ELSE CallSearchWeb(r1, q)

\* retrieveRagContext(query) up to its first await
RetrieveBegin(q) ==
    /\ ragPc = "idle"
    /\ ragQuery' = q
    /\ UNCHANGED env
    /\ IF q = <<>>
       THEN \* querySimilarDocuments throws 'query is required'; caught by rag.ts
            SetRag(CallTextTier([RagState EXCEPT !.vect = [k |-> "threw"]]))
       ELSE IF env.apiKey /\ env.rpc
       THEN SetRag([RagState EXCEPT !.log = Append(@, "embedContent"), !.pc = "embed"])
       ELSE SetRag(CallQsdText(RagState))

\* a call of retrieveRagContext made on its own
RetrieveStart(q) ==
    /\ RetrieveBegin(q)
    /\ UNCHANGED <<exVars, bibleVars>>

\* ai.models.embedContent settles
EmbedReturns(o) ==
    /\ ragPc = "embed"
    /\ UNCHANGED <<exVars, bibleVars>>
    /\ UNCHANGED <<env, ragQuery>>
    /\ IF o = "values"
       THEN SetRag([RagState EXCEPT !.log = Append(@, "rpc"), !.pc = "rpc"])
       ELSE SetRag(CallQsdText(RagState))

\* supabase.rpc('match_documents', ...) settles
RpcReturns(o) ==
    /\ ragPc = "rpc"
    /\ UNCHANGED <<exVars, bibleVars>>
    /\ UNCHANGED <<env, ragQuery>>
    /\ IF o.k = "rows"
       THEN SetRag(AfterVector(RagState, o.rows, "rpc"))
       ELSE SetRag(CallQsdText(RagState))

\* the plain-text search inside querySimilarDocuments settles
QsdTextReturns(resp) ==
    /\ ragPc = "qsdText"
    /\ UNCHANGED <<exVars, bibleVars>>
    /\ UNCHANGED <<env, ragQuery>>
    /\ SetRag(AfterVector(RagState, QsdTextResults(resp, RagTopK), "text"))

\* the full-text query of retrieveRagContext settles
RagTextReturns(resp) ==
    /\ ragPc = "ragText"
    /\ UNCHANGED <<exVars, bibleVars>>
    /\ UNCHANGED <<env, ragQuery>>
    /\ SetRag(AfterText(RagState, ragQuery, resp))

\* a searchWeb without its try / catch: what fetch, resp.json() or the parsing throws
\* reaches the caller
WebHttpReturns_NoCatch(http) ==
    /\ ragPc = "webHttp"
    /\ UNCHANGED <<exVars, bibleVars>>
    /\ UNCHANGED <<env, ragQuery>>
    /\ LET web == SearchWebParse(http, RagTopK)
           raised == http.k \in {"network", "badJson"}
                     \/ (http.k = "json" /\ http.body = JNull)
       IN  SetRag(RagReturn(
                    [RagState EXCEPT !.webOut =
                        IF raised THEN [k |-> "threw", http |-> http]
                        ELSE [k |-> "list", v |-> web, http |-> http]],
                    web))

\* the HTTP exchange of searchWeb ends; searchWeb and retrieveRagContext return
\* (webOut keeps how the exchange ended next to the list searchWeb made of it)
WebHttpReturns(http) ==
    /\ ragPc = "webHttp"
    /\ UNCHANGED <<exVars, bibleVars>>
    /\ UNCHANGED <<env, ragQuery>>
    /\ LET web == SearchWebParse(http, RagTopK)
       IN  SetRag(RagReturn(
                    [RagState EXCEPT !.webOut = [k |-> "list", v |-> web, http |-> http]],
                    web))

\* the caller is done with the result; the next call starts from a fresh frame
RagFinish ==
    /\ ragPc = "done"
    /\ UNCHANGED <<exVars, bibleVars>>
    /\ UNCHANGED env
    /\ ragQuery' = <<>>
    /\ SetRag(RagIdle)

ExtractOff ==
    /\ route = RouteIdle
    /\ exPc = "off"
    /\ modelResp = JNull
    /\ exOut = [threw |-> FALSE, text |-> <<>>]
    /\ httpOut = [status |-> 0, body |-> <<>>]

InitRag ==
    /\ ExtractOff
    /\ BibleOff
    /\ env \in [apiKey : BOOLEAN, rpc : BOOLEAN, web : BOOLEAN]
    /\ ragQuery = <<>>
    /\ ragPc = "idle"
    /\ ragLog = <<>>
    /\ vect = NoResponse
    /\ textResp = NoResponse
    /\ webOut = NoResponse
    /\ ragResult = <<>>
    /\ ragThrew = FALSE

NextRag ==
    \/ \E q \in Queries : RetrieveStart(q)
    \/ \E o \in EmbedOutcomes : EmbedReturns(o)
    \/ \E o \in RpcOutcomes : RpcReturns(o)
    \/ \E resp \in TextResponses : QsdTextReturns(resp)
    \/ \E resp \in TextResponses : RagTextReturns(resp)
    \/ \E http \in WebHttpOutcomes : WebHttpReturns(http)
    \/ RagFinish

SpecRag == InitRag /\ [][NextRag]_vars

----------------------------------------------------------------------------
(* Properties of retrieveRagContext *)

Invoked(cap) == \E i \in 1..Len(ragLog) : ragLog[i] = cap
TimesInvoked(cap) == Cardinality({i \in 1..Len(ragLog) : ragLog[i] = cap})

\* a string with at least one non-blank character
HasInk(v) == v.t = "str" /\ \E i \in 1..Len(v.s) : v.s[i] \notin {" ", "\t", "\n"}

\* the text a vector row carries: its content field, else its text field
RowText(r) ==
    IF r.t # "obj" THEN JNull
    ELSE IF "content" \in DOMAIN r.f /\ r.f.content.t = "str" THEN r.f.content
    ELSE IF "text" \in DOMAIN r.f /\ r.f.text.t = "str" THEN r.f.text
    ELSE JNull

RECURSIVE InkOnly(_)
InkOnly(vs) ==
    IF vs = <<>> THEN <<>>
    ELSE IF HasInk(Head(vs)) THEN <<Head(vs)>> \o InkOnly(Tail(vs))
    ELSE InkOnly(Tail(vs))

FirstThree(vs) == IF Len(vs) <= 3 THEN vs ELSE <<vs[1], vs[2], vs[3]>>

VectorSnippets == InkOnly([i \in 1..Len(vect.results) |-> RowText(vect.results[i])])
VectorUsable == vect.k = "results" /\ Len(VectorSnippets) > 0
TextUsable == textResp.k = "rows" /\ Len(InkOnly(textResp.rows)) > 0
TextTierEmpty == textResp.k # "none" /\ ~TextUsable

\* C1 as stated: whenever the vector tier (querySimilarDocuments) yields a usable
\* snippet, the full-text search capability and the web search capability have not
\* been invoked, and the result is the vector snippets.
C1_AsStated ==
    VectorUsable =>
        /\ ~Invoked("qsd.textSearch") /\ ~Invoked("rag.textSearch")
        /\ ~Invoked("searchWeb") /\ ~Invoked("fetch")
        /\ ragPc = "done" /\ ragResult = FirstThree(VectorSnippets)

\* C1 amended: whenever querySimilarDocuments yields a usable snippet, the full-text
\* tier of retrieveRagContext and the web search capability are never invoked and the
\* result is the first three usable vector snippets; the full-text search capability
\* is queried exactly when querySimilarDocuments did not get its rows from the
\* match_documents RPC, and then once, inside querySimilarDocuments.
C1_VectorTierFirst ==
    VectorUsable =>
        /\ ~Invoked("rag.textSearch")
        /\ ~Invoked("searchWeb") /\ ~Invoked("fetch")
        /\ ragPc = "done" /\ ragResult = FirstThree(VectorSnippets)
        /\ TimesInvoked("qsd.textSearch") = (IF vect.via = "rpc" THEN 0 ELSE 1)

\* C1 witness: the RPC returned more rows than are usable, and the call returned them
C1_Witness ==
    /\ ragPc = "done" /\ VectorUsable /\ vect.via = "rpc"
    /\ Len(vect.results) = 4 /\ Len(ragResult) = 2

\* C2: when the vector tier returned nothing usable or failed and the full-text tier
\* returned at least one non-blank row, searchWeb is never invoked and the result is
\* the (first three) non-blank full-text rows.
C2_FullTextBeforeWeb ==
    (~VectorUsable /\ TextUsable) =>
        /\ ~Invoked("searchWeb") /\ ~Invoked("fetch")
        /\ ragPc = "done" /\ ragResult = FirstThree(InkOnly(textResp.rows))

\* C2 witness: the vector RPC failed, the full-text tier answered with four rows
C2_Witness ==
    /\ ragPc = "done" /\ vect.k = "results" /\ vect.results = <<>> /\ Invoked("rpc")
    /\ TextUsable /\ Len(textResp.rows) = 4 /\ Len(ragResult) = 3

\* C3: whenever the vector tier yielded nothing usable and the full-text tier yielded
\* no non-blank row, a service-level error, or threw, searchWeb has been invoked
\* (once) and retrieveRagContext returns exactly what the web tier produced (the
\* empty list when searchWeb threw).
C3_WebLastResort ==
    (~VectorUsable /\ TextTierEmpty) =>
        /\ TimesInvoked("searchWeb") = 1
        /\ ragPc \in {"webHttp", "done"}
        /\ ragPc = "done" =>
               /\ webOut.k \in {"list", "threw"}
               /\ ragResult = (IF webOut.k = "list" THEN webOut.v ELSE <<>>)

\* C3 witness: a service-level error of the full-text tier, answered from the web
C3_Witness ==
    /\ ragPc = "done" /\ ~VectorUsable /\ textResp.k = "error"
    /\ webOut.k = "list" /\ Len(ragResult) = 2

\* C4: no exception escapes retrieveRagContext, and a finished call has resolved to a
\* list of strings, for every query and every failure of the embedding call, the
\* vector RPC, the full-text search and the web search.
C4_NeverThrows ==
    /\ ~ragThrew
    /\ ragPc \in {"idle", "embed", "rpc", "qsdText", "ragText", "webHttp", "done"}
    /\ ragPc = "done" => \A i \in 1..Len(ragResult) : ragResult[i].t = "str"

\* C4 witness: every tier failed (embedding, then both text searches, then the web)
C4_Witness ==
    /\ ragPc = "done" /\ Invoked("embedContent") /\ ~Invoked("rpc")
    /\ Invoked("qsd.textSearch") /\ textResp.k = "throw"
    /\ Invoked("fetch") /\ ragResult = <<>>

----------------------------------------------------------------------------
(* app/chat/routes.ts: extractText and the reply built from it *)

Ok(text) == [threw |-> FALSE, text |-> text]
Threw == [threw |-> TRUE, text |-> <<>>]

\* a property read on null or undefined raises a TypeError
Nullish(x) == x \in {JNull, JUndef}

\* routes.ts, the callback of output.map
ExtractOutputEntry(p) ==
    IF IsStr(p) THEN Ok(p.s)
    ELSE IF Nullish(p) THEN Threw
    ELSE LET content == Get(p, "content")
         IN  IF /\ IsArr(content) /\ Len(content.a) > 0
                /\ IsObject(content.a[1])
                /\ IsStr(Get(content.a[1], "text"))
             THEN Ok(Get(content.a[1], "text").s)
             ELSE IF IsStr(Get(p, "text")) THEN Ok(Get(p, "text").s)
             ELSE Ok(<<>>)

TextOf(o) == o.text

\* routes.ts, the array-output branch: map, filter(Boolean), join('\n')
ExtractOutputArray(entries) ==
    LET outs == MapSeq(entries, ExtractOutputEntry)
    IN  IF \E i \in 1..Len(outs) : outs[i].threw THEN Threw
        ELSE Ok(JoinWith(SelectSeq(MapSeq(outs, TextOf), NonEmptySeq), <<"\n">>))

\* routes.ts, the choices branch and the final return ''
ExtractChoices(r) ==
    LET choices == Get(r, "choices")
    IN  IF IsArr(choices) /\ Len(choices.a) > 0
        THEN LET first == choices.a[1]
             IN  IF Nullish(first) THEN Threw
                 ELSE IF IsStr(Get(Get(first, "message"), "content"))
                 THEN Ok(Get(Get(first, "message"), "content").s)
                 ELSE IF IsStr(Get(first, "text")) THEN Ok(Get(first, "text").s)
                 ELSE Ok(<<>>)
        ELSE Ok(<<>>)

\* routes.ts, the result branch, falling through to the choices branch
ExtractResult(r) ==
    LET result == Get(r, "result")
    IN  IF IsArr(result) /\ Len(result.a) > 0
        THEN LET res0 == result.a[1]
             IN  IF Nullish(res0) THEN Threw
                 ELSE IF IsStr(Get(Get(res0, "content"), "text"))
                 THEN Ok(Get(Get(res0, "content"), "text").s)
                 ELSE ExtractChoices(r)
        ELSE ExtractChoices(r)

\* routes.ts, extractText
extractText(r) ==
    IF Nullish(r) THEN Ok(<<>>)
    ELSE IF IsStr(r) THEN Ok(r.s)
    ELSE IF IsStr(Get(r, "text")) THEN Ok(Get(r, "text").s)
    ELSE IF IsStr(Get(r, "outputText")) THEN Ok(Get(r, "outputText").s)
    ELSE IF IsStr(Get(r, "output")) THEN Ok(Get(r, "output").s)
    ELSE IF IsArr(Get(r, "output")) THEN ExtractOutputArray(Get(r, "output").a)
    ELSE ExtractResult(r)

\* the body of the generic 500 reply
GenericError == <<"F", "a", "i", "l", "e", "d">>

\* routes.ts, the end of POST: reply with the text, or with the generic error on a throw
RouteReply(out) ==
    IF out.threw THEN [status |-> 500, body |-> GenericError]
    ELSE [status |-> 200, body |-> out.text]

Absent == [t |-> "absent"]

\* an object holding the fields of o that are present
ObjOf(o) == JObj([n \in {m \in DOMAIN o : o[m] # Absent} |-> o[n]])

Secrets == {<<"K", "1">>, <<"K", "2">>}

OutputEntries ==
    { JNull, JStr(<<>>), JStr(<<"p">>),
      JObj([content |-> JArr(<<JObj([text |-> JStr(<<"c">>)])>>), text |-> JStr(<<"x">>)]),
      JObj([content |-> JArr(<<JNull>>), text |-> JStr(<<"x">>)]),
      JObj([content |-> JStr(<<"n">>)]) }

TextBearer == JObj([content |-> JObj([text |-> JStr(<<"r">>)])])
MessageBearer == JObj([message |-> JObj([content |-> JStr(<<"m">>)])])

ModelResponses ==
    {JNull, JUndef, JStr(<<"p", "l">>), JNum(7), JArr(<<>>)}
    \cup
    { ObjOf(o) : o \in
        [ text : {Absent, JStr(<<"t">>), JNum(1)},
          outputText : {Absent, JStr(<<"o", "t">>)},
          output : {Absent, JStr(<<"o">>)}
                   \cup {JArr(es) : es \in SeqsUpTo(OutputEntries, MaxEntries)},
          result : {Absent, JArr(<<>>), JArr(<<JNull>>), JArr(<<TextBearer>>),
                    JArr(<<JObj([content |-> JNull]), TextBearer>>)},
          choices : {Absent, JArr(<<JNull>>), JArr(<<MessageBearer>>),
                     JArr(<<JObj([text |-> JStr(<<"c", "t">>)])>>),
                     JArr(<<JObj([message |-> JNull]), MessageBearer>>)},
          apiClient : {Absent} \cup
                      {JObj([clientOptions |-> JObj([auth |-> JObj([apiKey |-> JStr(k)])]),
                             apiKey |-> JStr(k)]) : k \in Secrets} ] }

\* the chat model has answered; the route extracts the text and replies
ExtractAndReply ==
    /\ exPc = "ready"
    /\ exPc' = "done"
    /\ exOut' = extractText(modelResp)
    /\ httpOut' = RouteReply(extractText(modelResp))
    /\ UNCHANGED <<modelResp, route, ragVars, bibleVars>>

RagOff ==
    /\ env = [apiKey |-> FALSE, rpc |-> FALSE, web |-> FALSE]
    /\ ragQuery = <<>>
    /\ ragPc = "idle"
    /\ ragLog = <<>>
    /\ vect = NoResponse
    /\ textResp = NoResponse
    /\ webOut = NoResponse
    /\ ragResult = <<>>
    /\ ragThrew = FALSE

InitExtract ==
    /\ RagOff
    /\ BibleOff
    /\ route = RouteIdle
    /\ exPc = "ready"
    /\ modelResp \in ModelResponses
    /\ exOut = [threw |-> FALSE, text |-> <<>>]
    /\ httpOut = [status |-> 0, body |-> <<>>]

NextExtract == ExtractAndReply

SpecExtract == InitExtract /\ [][NextExtract]_vars

----------------------------------------------------------------------------
(* Properties of extractText *)

HasStringField(r, n) == r.t = "obj" /\ n \in DOMAIN r.f /\ r.f[n].t = "str"
HasArrayField(r, n) == r.t = "obj" /\ n \in DOMAIN r.f /\ r.f[n].t = "arr"

\* e.a.b is a string
HasNestedString(e, a, b) ==
    /\ e.t = "obj" /\ a \in DOMAIN e.f
    /\ HasStringField(e.f[a], b)

\* the response has one of the text-bearing shapes of the decision order
TextBearing(r) ==
    \/ r.t = "str"
    \/ HasStringField(r, "text")
    \/ HasStringField(r, "outputText")
    \/ HasStringField(r, "output")
    \/ HasArrayField(r, "output")
    \/ /\ HasArrayField(r, "result")
       /\ \E i \in 1..Len(r.f.result.a) : HasNestedString(r.f.result.a[i], "content", "text")
    \/ /\ HasArrayField(r, "choices")
       /\ \E i \in 1..Len(r.f.choices.a) :
              \/ HasNestedString(r.f.choices.a[i], "message", "content")
              \/ HasStringField(r.f.choices.a[i], "text")

Occurs(sub, str) ==
    \E i \in 1..(Len(str) - Len(sub) + 1) : SubSeq(str, i, i + Len(sub) - 1) = sub

\* C5 as stated: extractText returns a string and never throws, for every response
\* value, arrays with null or non-object entries included.
C5_AsStated == exPc = "done" => ~exOut.threw

\* C6 as stated: for every response without a recognized text-bearing shape
\* extractText returns the empty string, so that the reply body is empty whatever
\* the unrecognized fields hold, and no secret occurs in it.
C6_AsStated ==
    (exPc = "done" /\ ~TextBearing(modelResp)) =>
        /\ ~exOut.threw /\ exOut.text = <<>>
        /\ httpOut.body = <<>>
        /\ \A k \in Secrets : ~Occurs(k, httpOut.body)

\* what does hold of the code: no reply body ever contains a secret of the response
NoSecretInReply == \A k \in Secrets : ~Occurs(k, httpOut.body)


\* the text an entry of an array output contributes: the entry itself if it is a
\* string, else the text of the first element of its content array, else its own
\* text field, else nothing
Contribution(p) ==
    IF p.t = "str" THEN p.s
    ELSE IF /\ HasArrayField(p, "content") /\ Len(p.f.content.a) > 0
            /\ HasStringField(p.f.content.a[1], "text")
    THEN p.f.content.a[1].f.text.s
    ELSE IF HasStringField(p, "text") THEN p.f.text.s
    ELSE <<>>

\* the response has none of the string fields of the decision order
NoStringField(r) ==
    /\ r.t = "obj"
    /\ ~HasStringField(r, "text")
    /\ ~HasStringField(r, "outputText")
    /\ ~HasStringField(r, "output")

Known(text) == [known |-> TRUE, text |-> text]

\* the text the decision order gives for the response, where one of its shapes is
\* the earliest that matches
Decided(r) ==
    IF r.t \in {"null", "undef"} THEN Known(<<>>)
    ELSE IF r.t = "str" THEN Known(r.s)
    ELSE IF HasStringField(r, "text") THEN Known(r.f.text.s)
    ELSE IF HasStringField(r, "outputText") THEN Known(r.f.outputText.s)
    ELSE IF HasStringField(r, "output") THEN Known(r.f.output.s)
    ELSE IF HasArrayField(r, "output")
    THEN Known(JoinWith(SelectSeq(MapSeq(r.f.output.a, Contribution), NonEmptySeq),
                     <<"\n">>))
    ELSE IF /\ HasArrayField(r, "result") /\ Len(r.f.result.a) > 0
            /\ HasNestedString(r.f.result.a[1], "content", "text")
    THEN Known(r.f.result.a[1].f.content.f.text.s)
    ELSE IF /\ ~HasArrayField(r, "result")
            /\ HasArrayField(r, "choices") /\ Len(r.f.choices.a) > 0
            /\ HasNestedString(r.f.choices.a[1], "message", "content")
    THEN Known(r.f.choices.a[1].f.message.f.content.s)
    ELSE [known |-> FALSE, text |-> <<>>]

\* C17 as stated: extractText returns the text of the earliest matching shape in the
\* order null or undefined, string response, string text, string outputText, string
\* output, array output, array result, array choices; a string text wins over
\* choices, and an array output decides alone, with the empty string as the result
\* when none of its entries contributes text.
C17_AsStated ==
    (exPc = "done" /\ Decided(modelResp).known)
        => exOut = Ok(Decided(modelResp).text)

\* what does hold of the code: whenever extractText returns, it returns the text of
\* the earliest matching shape
DecisionOrderWhenReturning ==
    (exPc = "done" /\ Decided(modelResp).known /\ ~exOut.threw)
        => exOut = Ok(Decided(modelResp).text)

\* the entries of an array that satisfy P, in the array's order
Bearers(arr, P(_)) == SelectSeq(arr, P)

ResultBearer(e) == HasNestedString(e, "content", "text")
ChoiceBearer(e) == HasNestedString(e, "message", "content")
ChoiceTextBearer(e) == HasStringField(e, "text")

\* the response gets as far as the array-shaped alternatives
ReachesAlternatives(r) == NoStringField(r) /\ ~HasArrayField(r, "output")

\* C18 as stated (calls that end in the exception of C5 left aside): for a response
\* whose result array has an entry, at any index, with a string content.text,
\* extractText returns that text; for a response without one whose choices array
\* has an entry, at any index, with a string message.content, it returns that
\* content, else the string text field of such an entry.
C18_AsStated ==
    (exPc = "done" /\ ~exOut.threw /\ ReachesAlternatives(modelResp)) =>
        LET r == modelResp
            res == IF HasArrayField(r, "result")
                   THEN Bearers(r.f.result.a, ResultBearer) ELSE <<>>
            msg == IF HasArrayField(r, "choices")
                   THEN Bearers(r.f.choices.a, ChoiceBearer) ELSE <<>>
            txt == IF HasArrayField(r, "choices")
                   THEN Bearers(r.f.choices.a, ChoiceTextBearer) ELSE <<>>
        IN  IF res # <<>> THEN exOut.text = res[1].f.content.f.text.s
            ELSE IF msg # <<>> THEN exOut.text = msg[1].f.message.f.content.s
            ELSE IF txt # <<>> THEN exOut.text = txt[1].f.text.s
            ELSE TRUE
----------------------------------------------------------------------------
(* lib/bibleApi.ts: reference strings, the range grammar of fetchRange *)

DigitSeq == <<"0", "1", "2", "3", "4", "5", "6", "7", "8", "9">>
Digits == {DigitSeq[i] : i \in 1..10}
DigitVal(c) == (CHOOSE i \in 1..10 : DigitSeq[i] = c) - 1

Letters ==
    { "A", "B", "C", "D", "E", "F", "G", "H", "I", "J", "K", "L", "M",
      "N", "O", "P", "Q", "R", "S", "T", "U", "V", "W", "X", "Y", "Z",
      "a", "b", "c", "d", "e", "f", "g", "h", "i", "j", "k", "l", "m",
      "n", "o", "p", "q", "r", "s", "t", "u", "v", "w", "x", "y", "z", "." }

Spaces == {" ", "\t", "\n"}

RECURSIVE DigitsValue(_)
DigitsValue(s) ==
    IF s = <<>> THEN 0
    ELSE DigitsValue(SubSeq(s, 1, Len(s) - 1)) * 10 + DigitVal(s[Len(s)])

\* Number(str); NaN is rendered as -1, which like NaN is below every loop start
ToNumber(s) ==
    IF \A i \in 1..Len(s) : s[i] \in Digits THEN DigitsValue(s) ELSE -1

RECURSIVE Dec(_)
\* String(n) and `${n}` for a non-negative integer
Dec(n) ==
    IF n < 10 THEN <<DigitSeq[n + 1]>>
    ELSE Dec(n \div 10) \o <<DigitSeq[(n % 10) + 1]>>

RECURSIVE RunEnd(_, _, _)
\* first position at or after i whose character is not in class C
RunEnd(s, i, C) ==
    IF i <= Len(s) /\ s[i] \in C THEN RunEnd(s, i + 1, C) ELSE i

CharAt(s, i) == IF i >= 1 /\ i <= Len(s) THEN s[i] ELSE ""

\* bibleApi.ts, the two regular expressions of fetchRange
\*   /^([1-3]?\s?[A-Za-z.]+)\s+(\d+):(\d+)-(\d+)$/
\*   /^([1-3]?\s?[A-Za-z.]+)\s+(\d+):(\d+)-(\d+):(\d+)$/
MatchRange(input) ==
    LET p1 == IF CharAt(input, 1) \in {"1", "2", "3"} THEN 2 ELSE 1
        p2 == IF CharAt(input, p1) \in Spaces THEN p1 + 1 ELSE p1
        p3 == RunEnd(input, p2, Letters)
        p4 == RunEnd(input, p3, Spaces)
        p5 == RunEnd(input, p4, Digits)
        p6 == RunEnd(input, p5 + 1, Digits)
        p7 == RunEnd(input, p6 + 1, Digits)
        p8 == RunEnd(input, p7 + 1, Digits)
        head == /\ p3 > p2 /\ p4 > p3 /\ p5 > p4
                /\ CharAt(input, p5) = ":" /\ p6 > p5 + 1
                /\ CharAt(input, p6) = "-" /\ p7 > p6 + 1
        book == Trim(SubSeq(input, 1, p3 - 1))
        n1 == ToNumber(SubSeq(input, p4, p5 - 1))
        n2 == ToNumber(SubSeq(input, p5 + 1, p6 - 1))
        n3 == ToNumber(SubSeq(input, p6 + 1, p7 - 1))
    IN  IF head /\ p7 = Len(input) + 1
        THEN [kind |-> "same", book |-> book, n1 |-> n1, n2 |-> n2, n3 |-> n3, n4 |-> 0]
        ELSE IF head /\ CharAt(input, p7) = ":" /\ p8 > p7 + 1 /\ p8 = Len(input) + 1
        THEN [kind |-> "cross", book |-> book, n1 |-> n1, n2 |-> n2, n3 |-> n3,
              n4 |-> ToNumber(SubSeq(input, p7 + 1, p8 - 1))]
        ELSE NoMatch

\* `${book} ${chapter}:${v}`
VerseRef(book, chapter, v) == book \o <<" ">> \o Dec(chapter) \o <<":">> \o Dec(v)

\* `${book} ${chapter}`
ChapterRef(book, chapter) == book \o <<" ">> \o Dec(chapter)

\* for (let v = from; v <= to; v++) list.push(`${book} ${chapter}:${v}`)
VerseRefs(book, chapter, from, to) ==
    [i \in 1..(IF to >= from THEN to - from + 1 ELSE 0) |->
        VerseRef(book, chapter, from + i - 1)]

ChapterLenPrefix ==
    <<"_", "_", "c", "h", "a", "p", "t", "e", "r", "l", "e", "n", "_", "_">>

\* `__chapterlen__${ref}`
ChapterLenKey(ref) == ChapterLenPrefix \o ref

----------------------------------------------------------------------------
(* bible-api.com, the external verse-lookup service *)

\* number of verses of a chapter, as the service knows it
ChapterVerses(c) == IF c % 2 = 1 THEN 2 ELSE 1

\* the text the service holds for a reference
ServiceText(ref) == <<"#">> \o ref

\* the service answers 404 for a string that names no passage
ServiceHolds(ref) == ref # <<>> /\ ref[1] # "_"

\* how one GET may end: body with text / verses, HTTP error, network error,
\* unparsable body, body without the field
LookupOutcomes == {"ok", "notOk", "network", "badJson", "noField"}

----------------------------------------------------------------------------
(* lib/bibleApi.ts: fetchVerse, fetchVerses, fetchRange as frames of async calls *)

\* a store that keeps the newest entry only
CachePut_Evicting(cache, key, val) == [k \in {key} |-> val]

CachePut(cache, key, val) ==
    [k \in DOMAIN cache \cup {key} |-> IF k = key THEN val ELSE cache[k]]

\* a cache that stores whatever the lookup produced, text or not
CacheText_Always(cache, ref, text) == CachePut(cache, ref, text)

\* bibleApi.ts, if (text) CACHE[normalized] = text
CacheText(cache, ref, text) == IF text # <<>> THEN CachePut(cache, ref, text) ELSE cache

\* if (CACHE[key]): entries are only ever written with non-empty strings
Cached(cache, key) == key \in DOMAIN cache /\ cache[key] # <<>>

\* results[key] = val on a plain object: a new key is appended, an old one keeps its place
PutResult(results, key, val) ==
    IF \E i \in 1..Len(results) : results[i].key = key
    THEN [i \in 1..Len(results) |->
            IF results[i].key = key THEN [key |-> key, val |-> val] ELSE results[i]]
    ELSE Append(results, [key |-> key, val |-> val])

RECURSIVE IssueAll(_, _, _)
\* a fetchVerses that starts one lookup and leaves the rest of the list alone
IssueAll_FirstOnly(c, i, cache) ==
    IF i > Len(c.list) THEN c
    ELSE [c EXCEPT !.pending = {i}, !.issued = <<c.list[i]>>]

\* bibleApi.ts, list.map(async (ref) => { results[ref] = await fetchVerse(ref) }):
\* every fetchVerse runs up to its first await at once; a cached reference settles in
\* a microtask (before any network completion), an uncached one issues its GET
IssueAll(c, i, cache) ==
    IF i > Len(c.list) THEN c
    ELSE LET ref == c.list[i]
         IN  IF Cached(cache, ref)
             THEN IssueAll([c EXCEPT !.results = PutResult(@, ref, JStr(cache[ref]))],
                           i + 1, cache)
             ELSE IssueAll([c EXCEPT !.pending = @ \cup {i}, !.issued = Append(@, ref)],
                           i + 1, cache)

\* a variant of fetchVerses that only looks up the first reference of its list
StartVerses_FirstOnly(c, refs, cache) ==
    LET list == Take(SelectSeq(MapSeq(refs, Trim), NonEmptySeq), 1)
        c1 == IssueAll([c EXCEPT !.list = list, !.warm = cache], 1, cache)
    IN  [c1 EXCEPT !.pc = IF c1.pending = {} THEN "done" ELSE "fetching"]

\* bibleApi.ts, fetchVerses on an array, up to await Promise.all(calls)
StartVerses(c, refs, cache) ==
    LET list == SelectSeq(MapSeq(refs, Trim), NonEmptySeq)
        c1 == IssueAll([c EXCEPT !.list = list, !.warm = cache], 1, cache)
    IN  [c1 EXCEPT !.pc = IF c1.pending = {} THEN "done" ELSE "fetching"]

RECURSIVE SplitComma(_)
\* String.prototype.split(',')
SplitComma(str) ==
    LET e == RunEnd(str, 1, Letters \cup Digits \cup Spaces \cup {":", "-", "_", "#"})
    IN  IF e > Len(str) THEN <<str>>
        ELSE <<SubSeq(str, 1, e - 1)>> \o SplitComma(SubSeq(str, e + 1, Len(str)))

\* a fetchVerse that asks the service without looking into the cache
fetchVerseStart_NoCacheCheck(c, reference, cache) ==
    LET normalized == Trim(reference)
        c1 == [c EXCEPT !.list = <<normalized>>, !.warm = cache]
    IN  IF normalized = <<>> THEN [c1 EXCEPT !.pc = "done", !.ret = JNull]
        ELSE [c1 EXCEPT !.pc = "single", !.pending = {1}, !.issued = Append(@, normalized)]

\* bibleApi.ts, fetchVerse up to its first await
fetchVerseStart(c, reference, cache) ==
    LET normalized == Trim(reference)
        c1 == [c EXCEPT !.list = <<normalized>>, !.warm = cache]
    IN  IF normalized = <<>> THEN [c1 EXCEPT !.pc = "done", !.ret = JNull]
        ELSE IF Cached(cache, normalized)
        THEN [c1 EXCEPT !.pc = "done", !.ret = JStr(cache[normalized])]
        ELSE [c1 EXCEPT !.pc = "single", !.pending = {1}, !.issued = Append(@, normalized)]

\* bibleApi.ts, const single = await fetchVerse(input); return { [input]: single }
\* once fetchVerse has settled
SingleEntry(c, input) ==
    IF c.op = "fetchRange" /\ c.pc = "done"
    THEN [c EXCEPT !.results = <<[key |-> input, val |-> c.ret]>>]
    ELSE c

\* first verse fetched of chapter ch in a cross-chapter range
FromVerse(m, ch) == IF ch = m.n1 THEN m.n2 ELSE 1

RECURSIVE Advance(_, _)
\* bibleApi.ts, the cross-chapter branch from `const chapter1Len = await
\* getChapterLength(...)` on: chapter lengths found in the cache are used at once, the
\* first missing one issues a GET; with all lengths known the end chapter is appended
\* and the list goes to fetchVerses
Advance(c, cache) ==
    IF c.need = <<>>
    THEN StartVerses(c, c.list \o VerseRefs(c.m.book, c.m.n3, 1, c.m.n4), cache)
    ELSE LET ch == Head(c.need)
             ref == ChapterRef(c.m.book, ch)
         IN  IF Cached(cache, ChapterLenKey(ref))
             THEN Advance(
                    [c EXCEPT !.need = Tail(@),
                              !.list = @ \o VerseRefs(c.m.book, ch, FromVerse(c.m, ch),
                                                      ToNumber(cache[ChapterLenKey(ref)]))],
                    cache)
             ELSE [c EXCEPT !.pc = "len", !.issued = Append(@, ref)]

\* a validation that lets every matching range expand
RangeValid_Unchecked(m) == m.kind \in {"same", "cross"}

\* bibleApi.ts, the endpoint checks of fetchRange
RangeValid(m) ==
    \/ m.kind = "same" /\ ~(m.n2 > m.n3)
    \/ m.kind = "cross" /\ ~(m.n1 > m.n3 \/ (m.n1 = m.n3 /\ m.n2 > m.n4))

\* bibleApi.ts, fetchRange up to its first await
StartRange(c, range, cache) ==
    LET input == Trim(range)
        m == MatchRange(input)
        c1 == [c EXCEPT !.m = m]
    IN  IF range = <<>> THEN [c EXCEPT !.pc = "threw"]
        ELSE IF ~RangeValid(m) THEN SingleEntry(fetchVerseStart(c1, input, cache), input)
        ELSE IF m.kind = "same"
        THEN StartVerses(c1, VerseRefs(m.book, m.n1, m.n2, m.n3), cache)
        ELSE Advance([c1 EXCEPT !.need = <<m.n1>> \o [i \in 1..(m.n3 - m.n1 - 1) |-> m.n1 + i]],
                     cache)

----------------------------------------------------------------------------
(* The callers of bibleApi.ts: the arguments they pass *)

Books == {<<"J">>}

\* the decimal numeral a caller writes for n
Numeral(n) == IF n < 10 THEN <<DigitSeq[n + 1]>> ELSE <<DigitSeq[(n \div 10) + 1], DigitSeq[(n % 10) + 1]>>

\* "Book C:V" as a caller writes it
RefText(book, c, v) == book \o <<" ">> \o Numeral(c) \o <<":">> \o Numeral(v)

Coordinates == {<<1, 1>>, <<1, 2>>}

RangeIntents ==
    [form : {"same"}, book : Books, c1 : 1..MaxChapter, v1 : 1..MaxVerse,
     c2 : {0}, v2 : 1..MaxVerse, pad : BOOLEAN]
    \cup [form : {"cross"}, book : Books, c1 : 1..MaxChapter, v1 : 1..MaxVerse,
          c2 : 1..MaxChapter, v2 : 1..MaxVerse, pad : {FALSE}]
    \cup [form : {"chapter"}, book : Books, c1 : 1..MaxChapter, v1 : {0},
          c2 : {0}, v2 : {0}, pad : BOOLEAN]
    \cup [form : {"book"}, book : Books, c1 : {0}, v1 : {0}, c2 : {0}, v2 : {0},
          pad : BOOLEAN]
    \cup [form : {"empty"}, book : Books, c1 : {0}, v1 : {0}, c2 : {0}, v2 : {0},
          pad : {FALSE}]

\* the range string without surrounding blanks
RangeText(i) ==
    CASE i.form = "same" ->
           RefText(i.book, i.c1, i.v1) \o <<"-">> \o Numeral(i.v2)
      [] i.form = "cross" ->
           RefText(i.book, i.c1, i.v1) \o <<"-">> \o Numeral(i.c2) \o <<":">> \o Numeral(i.v2)
      [] i.form = "chapter" -> i.book \o <<" ">> \o Numeral(i.c1)
      [] i.form = "book" -> i.book
      [] OTHER -> <<>>

Padded(text, pad) == IF pad THEN <<" ">> \o text \o <<" ">> ELSE text

VerseIntents ==
    [form : {"verse"}, book : Books, c1 : {1}, v1 : 1..MaxVerse, pad : BOOLEAN]
    \cup [form : {"blank"}, book : Books, c1 : {0}, v1 : {0}, pad : {TRUE}]
    \cup [form : {"lenkey"}, book : Books, c1 : {1}, v1 : {0}, pad : {FALSE}]

\* the reference a caller of fetchVerse passes: "Book C:V", blanks only, or any
\* other non-empty string, here one spelled like `__chapterlen__Book C`
VerseText(i) ==
    CASE i.form = "verse" -> RefText(i.book, i.c1, i.v1)
      [] i.form = "lenkey" -> ChapterLenPrefix \o i.book \o <<" ">> \o Numeral(i.c1)
      [] OTHER -> <<>>

ListIntents ==
    [form : {"array", "csv"}, book : Books,
     refs : SeqsUpTo(Coordinates, MaxList) \ {<<>>}]

\* the references of a list input, one string each
ListTexts(i) == [k \in 1..Len(i.refs) |-> RefText(i.book, i.refs[k][1], i.refs[k][2])]

\* "John 3:16, Genesis 1:1"
CommaText(i) == JoinWith(ListTexts(i), <<",", " ">>)

----------------------------------------------------------------------------
(* lib/bibleApi.ts: the calls and the completions of their requests *)

\* a new call takes the first free frame
CanStart(s) ==
    /\ calls[s].pc = "idle"
    /\ \A a \in Slots : a < s => calls[a].pc # "idle"
    /\ Cardinality(DOMAIN CACHE) <= MaxWarm

\* the calls whose frames are kept together are fetchVerse calls; fetchVerses and
\* fetchRange run with no other frame
OnlyVerseCalls == \A a \in Slots : calls[a].op \in {"none", "fetchVerse"}

NoOtherCall == \A a \in Slots : calls[a].pc = "idle"

NewCall(op, i) ==
    [CallIdle EXCEPT !.op = op, !.intent = i,
                     !.seen = {a \in Slots : calls[a].pc = "done"}]

\* fetchVerse(reference)
StartFetchVerse(s, i) ==
    /\ CanStart(s)
    /\ OnlyVerseCalls
    /\ calls' = [calls EXCEPT ![s] =
                   fetchVerseStart(NewCall("fetchVerse", i),
                                   Padded(VerseText(i), i.pad), CACHE)]
    /\ UNCHANGED <<CACHE, ragVars, exVars>>

\* fetchVerses(references), an array or a comma-separated string
StartFetchVerses(s, i) ==
    /\ CanStart(s)
    /\ NoOtherCall
    /\ calls' = [calls EXCEPT ![s] =
                   StartVerses(NewCall("fetchVerses", i),
                               IF i.form = "csv" THEN SplitComma(CommaText(i))
                               ELSE ListTexts(i),
                               CACHE)]
    /\ UNCHANGED <<CACHE, ragVars, exVars>>

\* fetchRange(range)
StartFetchRange(s, i) ==
    /\ CanStart(s)
    /\ NoOtherCall
    /\ calls' = [calls EXCEPT ![s] =
                   StartRange(NewCall("fetchRange", i),
                              Padded(RangeText(i), i.pad), CACHE)]
    /\ UNCHANGED <<CACHE, ragVars, exVars>>

\* fetchVerse after its await fetch(...): the GET of list[i] has completed
VerseSettles(s, i, o) ==
    LET c == calls[s]
        ref == c.list[i]
        text == IF o = "ok" THEN ServiceText(ref) ELSE <<>>
        val == IF text # <<>> THEN JStr(text) ELSE JNull
        c1 == [c EXCEPT !.pending = @ \ {i},
                        !.outcome = IF c.op = "fetchVerse" THEN o ELSE @]
    IN  /\ c.pc \in {"fetching", "single"}
        /\ i \in c.pending
        /\ o = "ok" => ServiceHolds(ref)
        /\ CACHE' = CacheText(CACHE, ref, text)
        /\ calls' = [calls EXCEPT ![s] =
                       IF c.pc = "single"
                       THEN SingleEntry([c1 EXCEPT !.pc = "done", !.ret = val], ref)
                       ELSE [c1 EXCEPT !.results = PutResult(@, ref, val),
                                       !.pc = IF c1.pending = {} THEN "done"
                                              ELSE "fetching"]]
        /\ UNCHANGED <<ragVars, exVars>>

\* a getChapterLength that stores the count it obtained, zero included
ChapterLenSettles_CachesFailure(s, o) ==
    LET c == calls[s]
        ch == Head(c.need)
        ref == ChapterRef(c.m.book, ch)
        len == IF o = "ok" THEN ChapterVerses(ch) ELSE 0
        cache == CachePut(CACHE, ChapterLenKey(ref), Dec(len))
        c1 == [c EXCEPT !.need = Tail(@),
                        !.list = @ \o VerseRefs(c.m.book, ch, FromVerse(c.m, ch), len)]
    IN  /\ c.pc = "len"
        /\ CACHE' = cache
        /\ calls' = [calls EXCEPT ![s] = Advance(c1, cache)]
        /\ UNCHANGED <<ragVars, exVars>>

\* getChapterLength after its await fetch(...), and fetchRange on from there
ChapterLenSettles(s, o) ==
    LET c == calls[s]
        ch == Head(c.need)
        ref == ChapterRef(c.m.book, ch)
        len == IF o = "ok" THEN ChapterVerses(ch) ELSE 0
        cache == IF len > 0 THEN CachePut(CACHE, ChapterLenKey(ref), Dec(len)) ELSE CACHE
        c1 == [c EXCEPT !.need = Tail(@),
                        !.list = @ \o VerseRefs(c.m.book, ch, FromVerse(c.m, ch), len)]
    IN  /\ c.pc = "len"
        /\ CACHE' = cache
        /\ calls' = [calls EXCEPT ![s] = Advance(c1, cache)]
        /\ UNCHANGED <<ragVars, exVars>>

\* the caller has received the promise's outcome
CallReturns(s) ==
    /\ calls[s].pc \in {"done", "threw"}
    /\ calls' = [a \in Slots |->
                   IF a = s THEN CallIdle ELSE [calls[a] EXCEPT !.seen = @ \ {s}]]
    /\ UNCHANGED <<CACHE, ragVars, exVars>>

\* clearCache(), the helper the tests run between two calls
clearCache ==
    /\ CACHE # EmptyCache
    /\ \A s \in Slots : calls[s].pc = "idle"
    /\ CACHE' = EmptyCache
    /\ UNCHANGED <<calls, ragVars, exVars>>

InitBible ==
    /\ RagOff
    /\ ExtractOff
    /\ BibleOff

NextBible ==
    \/ \E s \in Slots, i \in VerseIntents : StartFetchVerse(s, i)
    \/ \E s \in Slots, i \in ListIntents : StartFetchVerses(s, i)
    \/ \E s \in Slots, i \in RangeIntents : StartFetchRange(s, i)
    \/ \E s \in Slots, o \in LookupOutcomes :
          \E i \in calls[s].pending : VerseSettles(s, i, o)
    \/ \E s \in Slots, o \in LookupOutcomes : ChapterLenSettles(s, o)
    \/ \E s \in Slots : CallReturns(s)
    \/ clearCache

SpecBible == InitBible /\ [][NextBible]_vars

----------------------------------------------------------------------------
(* Properties of fetchRange and fetchVerses *)

KeySet(results) == {results[k].key : k \in 1..Len(results)}

TimesIssued(c, ref) == Cardinality({k \in 1..Len(c.issued) : c.issued[k] = ref})

\* the call in slot s is a fetchRange of a same-chapter range with V1 <= V2
SameChapterCall(c) ==
    /\ c.op = "fetchRange"
    /\ c.intent.form = "same"
    /\ c.intent.v1 <= c.intent.v2

SameChapterRefs(i) == {RefText(i.book, i.c1, v) : v \in i.v1..i.v2}

\* C7: a fetchRange of "Book C:V1-V2" with V1 <= V2 requests each verse of
\* C:V1..C:V2 from the service exactly once if the cache did not hold it and never
\* if it did, requests nothing else (not the range string either), and returns a
\* map whose key set is exactly the verses C:V1..C:V2.
C7_SameChapterExpansion ==
    \A s \in Slots :
        LET c == calls[s]
            i == c.intent
        IN  SameChapterCall(c) =>
              /\ c.pc \in {"fetching", "done"}
              /\ \A ref \in SameChapterRefs(i) :
                    TimesIssued(c, ref) = IF ref \in DOMAIN c.warm THEN 0 ELSE 1
              /\ \A k \in 1..Len(c.issued) : c.issued[k] \in SameChapterRefs(i)
              /\ c.pc = "done" =>
                    /\ KeySet(c.results) = SameChapterRefs(i)
                    /\ Len(c.results) = Cardinality(SameChapterRefs(i))

\* a padded two-verse range has returned, one verse from the cache, one looked up
C7_Witness ==
    \E s \in Slots :
        /\ SameChapterCall(calls[s])
        /\ calls[s].pc = "done"
        /\ calls[s].intent.pad
        /\ calls[s].intent.v1 < calls[s].intent.v2
        /\ Len(calls[s].issued) = 1
        /\ RefText(calls[s].intent.book, calls[s].intent.c1, calls[s].intent.v2)
              \in DOMAIN calls[s].warm

\* the call is a fetchRange of a cross-chapter range with valid endpoints
CrossChapterCall(c) ==
    /\ c.op = "fetchRange"
    /\ c.intent.form = "cross"
    /\ \/ c.intent.c1 < c.intent.c2
       \/ c.intent.c1 = c.intent.c2 /\ c.intent.v1 <= c.intent.v2

CrossChapterRefs(i) ==
    {RefText(i.book, i.c1, v) : v \in i.v1..ChapterVerses(i.c1)}
    \cup UNION {{RefText(i.book, ch, v) : v \in 1..ChapterVerses(ch)} :
                  ch \in (i.c1 + 1)..(i.c2 - 1)}
    \cup {RefText(i.book, i.c2, v) : v \in 1..i.v2}

\* the length of the start chapter and of every chapter between has been obtained
LengthsKnown(i) ==
    \A ch \in i.c1..(IF i.c2 - 1 > i.c1 THEN i.c2 - 1 ELSE i.c1) :
        (ChapterLenPrefix \o i.book \o <<" ">> \o Numeral(ch)) \in DOMAIN CACHE

\* C8: a fetchRange of "Book C1:V1-C2:V2" with C1 < C2, or C1 = C2 and V1 <= V2,
\* returns (here: when no chapter-length lookup failed) a map whose key set is the
\* verses from C1:V1 to the end of C1, all verses of the chapters between, and
\* C2:1..C2:V2, with "Book C1:V1" as first key and "Book C2:V2" as last key.
C8_AsStated ==
    \A s \in Slots :
        LET c == calls[s]
            i == c.intent
        IN  (CrossChapterCall(c) /\ c.pc = "done" /\ LengthsKnown(i)) =>
              /\ KeySet(c.results) = CrossChapterRefs(i)
              /\ c.results # <<>>
              /\ c.results[1].key = RefText(i.book, i.c1, i.v1)
              /\ c.results[Len(c.results)].key = RefText(i.book, i.c2, i.v2)

\* the call is a fetchRange of an inverted range, a bare chapter or a bare book
DegradedCall(c) ==
    /\ c.op = "fetchRange"
    /\ \/ c.intent.form = "same" /\ c.intent.v1 > c.intent.v2
       \/ c.intent.form = "cross" /\ c.intent.c1 > c.intent.c2
       \/ c.intent.form = "cross" /\ c.intent.c1 = c.intent.c2
                                  /\ c.intent.v1 > c.intent.v2
       \/ c.intent.form \in {"chapter", "book"}

\* C9: a fetchRange of an inverted same-chapter or cross-chapter range, or of a
\* bare chapter or book, neither expands nor fails: it performs one fetchVerse of
\* the trimmed input (at most one request, for that string, none if it is cached)
\* and returns the one-entry map from the trimmed input to that fetchVerse's result.
C9_DegradeToSinglePassage ==
    \A s \in Slots :
        LET c == calls[s]
            input == RangeText(c.intent)
        IN  DegradedCall(c) =>
              /\ c.pc \in {"single", "done"}
              /\ c.issued = IF input \in DOMAIN c.warm THEN <<>> ELSE <<input>>
              /\ c.pc = "done" =>
                    /\ Len(c.results) = 1
                    /\ c.results[1].key = input
                    /\ c.results[1].val = c.ret
                    /\ c.ret \in IF input \in DOMAIN c.warm
                                 THEN {JStr(c.warm[input])}
                                 ELSE {JNull, JStr(ServiceText(input))}

\* an inverted same-chapter range, padded with blanks, has been looked up as one
\* passage and has returned
C9_Witness ==
    \E s \in Slots :
        /\ DegradedCall(calls[s])
        /\ calls[s].intent.form = "same"
        /\ calls[s].intent.pad
        /\ calls[s].pc = "done"
        /\ calls[s].issued = <<RangeText(calls[s].intent)>>
        /\ calls[s].ret # JNull

\* position of the first occurrence of x in seq (0 if none)
FirstIndex(seq, x) ==
    IF \E k \in 1..Len(seq) : seq[k] = x
    THEN CHOOSE k \in 1..Len(seq) : seq[k] = x /\ \A j \in 1..(k - 1) : seq[j] # x
    ELSE 0

\* a comes before b in the logical order of the call: the input order of a
\* fetchVerses list, ascending chapter and verse for a range
LogicallyBefore(c, a, b) ==
    IF c.op = "fetchVerses"
    THEN FirstIndex(ListTexts(c.intent), a) < FirstIndex(ListTexts(c.intent), b)
    ELSE \E ca, cb \in 1..MaxChapter, va, vb \in 1..MaxVerse :
            /\ a = RefText(c.intent.book, ca, va)
            /\ b = RefText(c.intent.book, cb, vb)
            /\ ca < cb \/ (ca = cb /\ va < vb)

\* C10: the keys of the map returned by fetchVerses or by an expanding fetchRange
\* are enumerated in the logical order of the references, whatever the order in
\* which the lookups completed and whichever references were cached.
C10_AsStated ==
    \A s \in Slots :
        LET c == calls[s]
        IN  (/\ c.pc = "done"
             /\ \/ c.op = "fetchVerses"
                \/ SameChapterCall(c)
                \/ CrossChapterCall(c)) =>
              \A a, b \in 1..Len(c.results) :
                  a < b => LogicallyBefore(c, c.results[a].key, c.results[b].key)

----------------------------------------------------------------------------
(* Properties of fetchVerse and of the cache *)

\* slot b holds a fetchVerse call that began after the fetchVerse call of slot a
\* had settled, both for the same reference once trimmed
RepeatedVerse(a, b) ==
    /\ a # b
    /\ calls[a].op = "fetchVerse" /\ calls[a].intent.form = "verse"
    /\ calls[b].op = "fetchVerse" /\ calls[b].intent.form = "verse"
    /\ a \in calls[b].seen
    /\ VerseText(calls[a].intent) = VerseText(calls[b].intent)

\* C11 as stated: two fetchVerse calls, one after the other, with the same trimmed
\* reference issue at most one lookup in total, and the second issues none and
\* returns the cached value.
C11_AsStated ==
    \A a, b \in Slots :
        RepeatedVerse(a, b) =>
            /\ Len(calls[a].issued) + Len(calls[b].issued) <= 1
            /\ calls[b].issued = <<>>
            /\ calls[b].pc = "done"
            /\ calls[b].ret = JStr(ServiceText(VerseText(calls[b].intent)))

\* C11: once a fetchVerse has returned the text of a reference, a later fetchVerse
\* with the same trimmed reference issues no lookup and returns that same text
\* from the cache; the two calls together have issued at most one lookup.
C11_CachedAfterSuccess ==
    \A a, b \in Slots :
        (RepeatedVerse(a, b) /\ calls[a].ret # JNull) =>
            /\ Len(calls[a].issued) + Len(calls[b].issued) <= 1
            /\ calls[b].issued = <<>>
            /\ calls[b].pc = "done"
            /\ calls[b].ret = calls[a].ret
            /\ calls[b].ret = JStr(ServiceText(VerseText(calls[b].intent)))

\* the first call looked the verse up and got its text, the second, written with
\* other blanks around the reference, has returned
C11_Witness ==
    \E a, b \in Slots :
        /\ RepeatedVerse(a, b)
        /\ calls[a].issued = <<VerseText(calls[a].intent)>>
        /\ calls[a].ret # JNull
        /\ calls[a].intent.pad # calls[b].intent.pad
        /\ calls[b].pc = "done"

\* the distinct references of a fetchVerses input
ListRefs(i) == {ListTexts(i)[k] : k \in 1..Len(i.refs)}

\* C12 as stated: in one fetchVerses call each distinct reference of the input is
\* looked up at most once, however often the input repeats it, and the returned
\* map holds one entry for it.
C12_AsStated ==
    \A s \in Slots :
        LET c == calls[s]
        IN  c.op = "fetchVerses" =>
              /\ \A ref \in ListRefs(c.intent) : TimesIssued(c, ref) <= 1
              /\ c.pc = "done" =>
                    /\ KeySet(c.results) = ListRefs(c.intent)
                    /\ Len(c.results) = Cardinality(ListRefs(c.intent))

\* the GET of the fetchVerse call in slot a ended without a usable text
FailedVerse(a) ==
    /\ calls[a].op = "fetchVerse"
    /\ calls[a].pc = "done"
    /\ calls[a].outcome \in LookupOutcomes \ {"ok"}

\* C13: a fetchVerse whose lookup ends with a non-OK status, a network error, an
\* unparsable body or a body without text returns null and leaves the cache as it
\* was in that step; a fetchVerse of the same reference that begins afterwards,
\* the cache not having changed since the failed call began, asks the service again.
C13_FailureNotCached ==
    /\ [][\A s \in Slots :
            (calls[s].pc = "single" /\ FailedVerse(s)') =>
                (calls'[s].ret = JNull /\ CACHE' = CACHE)]_vars
    /\ [](\A a, b \in Slots :
            (RepeatedVerse(a, b) /\ FailedVerse(a) /\ calls[b].warm = calls[a].warm) =>
                /\ calls[a].ret = JNull
                /\ calls[b].issued = <<VerseText(calls[b].intent)>>)

\* a lookup came back without text, the cache is still empty, and the same verse is
\* being looked up again
C13_Witness ==
    \E a, b \in Slots :
        /\ RepeatedVerse(a, b)
        /\ FailedVerse(a)
        /\ calls[a].outcome = "noField"
        /\ CACHE = EmptyCache
        /\ calls[b].pc = "single"
        /\ calls[b].issued = <<VerseText(calls[a].intent)>>

\* the positions of a fetchVerses input whose reference the cache did not hold
\* when the call began
Uncached(c) ==
    {k \in 1..Len(c.intent.refs) : ListTexts(c.intent)[k] \notin DOMAIN c.warm}

\* C14: a fetchVerses call has issued the lookups of all its uncached references
\* by the time it first waits, that is before any of them has been answered; it
\* has not returned while one of them is unanswered; and the map it returns has
\* one entry per distinct reference.
C14_IssuedTogether ==
    \A s \in Slots :
        LET c == calls[s]
        IN  c.op = "fetchVerses" =>
              /\ Len(c.issued) = Cardinality(Uncached(c))
              /\ \A k \in Uncached(c) : TimesIssued(c, ListTexts(c.intent)[k]) >= 1
              /\ c.pending \subseteq Uncached(c)
              /\ c.pc = "done" <=> c.pending = {}
              /\ c.pc \in {"fetching", "done"}
              /\ c.pc = "done" =>
                    /\ KeySet(c.results) = ListRefs(c.intent)
                    /\ Len(c.results) = Cardinality(ListRefs(c.intent))

\* two different uncached references: both lookups are out, one has been answered,
\* the call is still waiting for the other
C14_Witness ==
    \E s \in Slots :
        /\ calls[s].op = "fetchVerses"
        /\ Cardinality(ListRefs(calls[s].intent)) = 2
        /\ calls[s].warm = EmptyCache
        /\ Len(calls[s].issued) = 2
        /\ Cardinality(calls[s].pending) = 1
        /\ Len(calls[s].results) = 1
        /\ calls[s].pc = "fetching"

----------------------------------------------------------------------------
(* app/chat/routes.ts and lib/bibleApi.ts: the reference found in a question *)

\* \w
IsWord(ch) == ch \in (Letters \ {"."}) \cup Digits \cup {"_"}

\* \b before position p
Boundary(t, p) == IsWord(CharAt(t, p - 1)) # IsWord(CharAt(t, p))

\* [1-3]?\s?[A-Za-z.]+\s+\d{1,3}:\d{1,3} tried at position p: the position after
\* the match, 0 if there is none (every quantifier has one way to succeed here)
VerseEndAt(t, p) ==
    LET p1 == IF CharAt(t, p) \in {"1", "2", "3"} THEN p + 1 ELSE p
        p2 == IF CharAt(t, p1) \in Spaces THEN p1 + 1 ELSE p1
        p3 == RunEnd(t, p2, Letters)
        p4 == RunEnd(t, p3, Spaces)
        p5 == RunEnd(t, p4, Digits)
        p6 == RunEnd(t, p5 + 1, Digits)
    IN  IF /\ p3 > p2 /\ p4 > p3
           /\ p5 > p4 /\ p5 - p4 <= 3
           /\ CharAt(t, p5) = ":"
           /\ p6 > p5 + 1 /\ p6 - (p5 + 1) <= 3
        THEN p6 ELSE 0

\* the pattern of extractFirstVerseReference tried at p, with its closing \b
SingleEndAt(t, p) ==
    LET e == VerseEndAt(t, p)
    IN  IF Boundary(t, p) /\ e # 0 /\ Boundary(t, e) THEN e ELSE 0

\* rangeRegex tried at p:
\*   \b(<verse pattern>\s*-\s*(?:\d{1,3}:\d{1,3}|\d{1,3}))\b
RangeEndAt(t, p) ==
    LET e == VerseEndAt(t, p)
        q1 == RunEnd(t, e, Spaces)
        q2 == RunEnd(t, q1 + 1, Spaces)
        q3 == RunEnd(t, q2, Digits)
        q4 == RunEnd(t, q3 + 1, Digits)
        lead == /\ Boundary(t, p) /\ e # 0
                /\ CharAt(t, q1) = "-"
                /\ q3 > q2 /\ q3 - q2 <= 3
    IN  IF /\ lead /\ CharAt(t, q3) = ":"
           /\ q4 > q3 + 1 /\ q4 - (q3 + 1) <= 3
           /\ Boundary(t, q4)
        THEN q4
        ELSE IF lead /\ Boundary(t, q3) THEN q3
        ELSE 0

\* String.prototype.match without the g flag: the leftmost position that matches;
\* the value is match[1].trim(), null without a match
FirstMatch(t, EndAt(_, _)) ==
    IF \E p \in 1..Len(t) : EndAt(t, p) # 0
    THEN LET p == CHOOSE q \in 1..Len(t) :
                      EndAt(t, q) # 0 /\ \A r \in 1..(q - 1) : EndAt(t, r) = 0
         IN  JStr(Trim(SubSeq(t, p, EndAt(t, p) - 1)))
    ELSE JNull

\* bibleApi.ts, extractFirstVerseReference
extractFirstVerseReference(text) == FirstMatch(text, SingleEndAt)

\* routes.ts, rangeMatch ? rangeMatch[1].trim() : null
RangeRefOf(question) == FirstMatch(question, RangeEndAt)

----------------------------------------------------------------------------
(* app/chat/routes.ts: POST, the request and the messages built for the model *)

\* the questions asked: no reference, a near miss of one, one verse, a range
Questions ==
    { <<"W", " ", "G", "?">>,
      <<"J", " ", "1", ":", "1", "a">>,
      <<"E", " ", "J", " ", "1", ":", "1">>,
      <<"E", " ", "J", " ", "1", ":", "1", "-", "2">> }

\* items of the contents array of a request
Turn(role, content) == JObj([role |-> JStr(role), content |-> JStr(content)])

PriorTurns ==
    JArr(<<Turn(<<"user">>, <<"a">>), Turn(<<"assistant">>, <<"b">>),
           Turn(<<"system">>, <<"c">>)>>)

\* JSON bodies a client may post
RequestBodies ==
    { JNull,
      JObj([question |-> JNum(1)]),
      JObj([question |-> JStr(<<" ">>)]),
      JObj([question |-> JStr(<<"W", " ", "G", "?">>), contents |-> JStr(<<"a">>)]),
      JObj([question |-> JStr(<<"W", " ", "G", "?">>),
            contents |-> JArr(<<Turn(<<"tool">>, <<"a">>)>>)]) }
    \cup
    { JObj([question |-> JStr(<<"E", " ", "J", " ", "1", ":", "1">>),
            devMock |-> JStr(<<"t", "r", "u", "e">>)]) }
    \cup
    { ObjOf(o) : o \in
        [ question : {JStr(<<" ">> \o q) : q \in Questions},
          contents : {Absent, JArr(<<>>), PriorTurns},
          devMock : {Absent, [t |-> "bool", b |-> TRUE]} ] }

\* process.env.DEV_MOCK === 'true' and process.env.NODE_ENV === 'development'
Servers ==
    { [DEV_MOCK |-> FALSE, development |-> FALSE],
      [DEV_MOCK |-> FALSE, development |-> TRUE],
      [DEV_MOCK |-> TRUE, development |-> FALSE] }

Roles == {<<"user">>, <<"assistant">>, <<"system">>, <<"model">>}

\* routes.ts, isChatContentItem
isChatContentItem(obj) ==
    /\ IsObject(obj)
    /\ IsStr(Get(obj, "role")) /\ Get(obj, "role").s \in Roles
    /\ IsStr(Get(obj, "content"))

\* routes.ts, parseRequest: an error, or the trimmed question, the contents and devMock
parseRequest(raw) ==
    LET q == Get(raw, "question")
        rawContents == Get(raw, "contents")
    IN  IF ~IsObject(raw) THEN [error |-> "body"]
        ELSE IF ~IsStr(q) \/ Trim(q.s) = <<>> THEN [error |-> "question"]
        ELSE IF rawContents # JUndef /\ ~IsArr(rawContents) THEN [error |-> "contents"]
        ELSE IF rawContents # JUndef
                /\ \E k \in 1..Len(rawContents.a) : ~isChatContentItem(rawContents.a[k])
        THEN [error |-> "item"]
        ELSE [error |-> "none", question |-> Trim(q.s),
              contents |-> IF rawContents = JUndef THEN <<>> ELSE rawContents.a,
              devMock |-> Get(raw, "devMock") = [t |-> "bool", b |-> TRUE]]

\* a mock switch that honours the client's flag on every server
DevMock_ClientAnywhere(server, clientDevMock) ==
    server.DEV_MOCK \/ clientDevMock

\* routes.ts, const DEV_MOCK = ...
DevMock(server, clientDevMock) ==
    server.DEV_MOCK \/ (server.development /\ clientDevMock)

Msg(role, parts) == [role |-> role, parts |-> parts]

SYSTEM_PROMPT == <<"Y", "o", "u", " ", "a", "r", "e">>
ReadyText == <<"I", " ", "u", "n", "d", "e", "r", "s", "t", "a", "n", "d">>
RelatedPrefix == <<"R", "e", "l", "a", "t", "e", "d", ":", " ">>
ReferencePrefix == <<"R", "e", "f", "e", "r", "e", "n", "c", "e", " ">>
WebNote == <<"N", "o", "t", "e">>
WebPrefix == <<"W", "e", "b", " ", "[">>
SourceOpen == <<" ", "(", "s", "o", "u", "r", "c", "e", ":", " ">>

\* routes.ts, one prior turn as a message: every role but user becomes model
TurnMessage(item) ==
    Msg(IF Get(item, "role").s = <<"user">> THEN "user" ELSE "model",
        Get(item, "content").s)

\* routes.ts, const messages = contents.length === 0 ? [preamble pair] : contents.map(...)
InitialMessages(contents) ==
    IF Len(contents) = 0
    THEN <<Msg("user", SYSTEM_PROMPT), Msg("model", ReadyText)>>
    ELSE MapSeq(contents, TurnMessage)

\* routes.ts, one retrieved snippet as a message
RelatedMessage(snippet) == Msg("system", RelatedPrefix \o snippet.s)

\* routes.ts, one entry of the fetched map as a message
ReferenceMessage(e) == Msg("user", ReferencePrefix \o e.key \o <<":", " ">> \o e.val.s)

\* routes.ts, .filter(([, t]) => t != null)
HasText(e) == e.val \notin {JNull, JUndef}

\* routes.ts, if (verseText)
TruthyText(e) == IsStr(e.val) /\ e.val.s # <<>>

\* routes.ts, searchWeb(question, 3)
RouteWebTopK == 3

\* the snippet length above which the route shortens a web result
WebMaxLen == 200

Ellipsis == "..."   \* stands for the one-character ellipsis

RECURSIVE NonSpaceEnd(_, _)
\* the end of the run of non-blank characters that starts at i
NonSpaceEnd(s, i) ==
    IF i > Len(s) \/ IsSpace(s[i]) THEN i ELSE NonSpaceEnd(s, i + 1)

\* /(https?:\/\/\S+)/ tried at position p: the position after the match, or 0
UrlEndAt(raw, p) ==
    LET q == IF CharAt(raw, p + 4) = "s" THEN p + 5 ELSE p + 4
        e == NonSpaceEnd(raw, q + 3)
    IN  IF /\ p + 3 <= Len(raw)
           /\ SubSeq(raw, p, p + 3) = <<"h", "t", "t", "p">>
           /\ q + 2 <= Len(raw)
           /\ SubSeq(raw, q, q + 2) = <<":", "/", "/">>
           /\ e > q + 3
        THEN e
        ELSE 0

\* routes.ts, the body of the loop over the web results: the i-th result as a message
WebContextMessage(i, raw) ==
    LET found == \E p \in 1..Len(raw) : UrlEndAt(raw, p) # 0
        p == IF found
             THEN CHOOSE a \in 1..Len(raw) :
                      UrlEndAt(raw, a) # 0 /\ \A b \in 1..(a - 1) : UrlEndAt(raw, b) = 0
             ELSE 0
        url == IF found THEN SubSeq(raw, p, UrlEndAt(raw, p) - 1) ELSE <<>>
        textOnly == IF found
                    THEN Trim(SubSeq(raw, 1, p - 1) \o SubSeq(raw, UrlEndAt(raw, p), Len(raw)))
                    ELSE raw
        short == IF Len(textOnly) > WebMaxLen
                 THEN Trim(SubSeq(textOnly, 1, WebMaxLen - 1)) \o <<Ellipsis>>
                 ELSE textOnly
        head == WebPrefix \o Dec(i) \o <<"]", ":", " ">> \o short
    IN  Msg("system",
            IF found THEN head \o SourceOpen \o url \o <<")">> ELSE head)

\* routes.ts, the messages pushed for a non-empty web result: the note, then the results
WebMessages(web) ==
    IF Len(web) = 0 THEN <<>>
    ELSE <<Msg("system", WebNote)>> \o [i \in 1..Len(web) |-> WebContextMessage(i, web[i].s)]

----------------------------------------------------------------------------
(* app/chat/routes.ts: POST as a state machine; a step ends at each await *)

\* the reply of POST: status and body
Reply(status, body) == [status |-> status, body |-> body]

NoReply == Reply(0, <<>>)
KeyMissing == <<"K", "E", "Y">>
CannedText == <<"D", "E", "V">>
FoundPrefix == <<"D", "E", "V", ":", " ">>

\* what a step of POST leaves behind: the handler's frame, the frame of the bibleApi
\* call it awaits (CallIdle when it awaits none) and the reply (NoReply when none yet)
Step(r, frame, reply) == [route |-> r, frame |-> frame, reply |-> reply]

\* a lookup that asks for the whole question when no pattern finds a reference in it
VerseLookup_WholeQuestion(r, cache) ==
    IF r.rangeRef # JNull
    THEN StartRange(NewCall("fetchRange", [form |-> "route"]), r.rangeRef.s, cache)
    ELSE IF r.verseRef # JNull
    THEN fetchVerseStart(NewCall("fetchVerse", [form |-> "route"]), r.verseRef.s, cache)
    ELSE fetchVerseStart(NewCall("fetchVerse", [form |-> "route"]), r.question, cache)

\* the frame of the bibleApi call POST makes for the reference found in the question:
\* fetchRange for a range, else fetchVerse for a single reference, else no call
VerseLookup(r, cache) ==
    IF r.rangeRef # JNull
    THEN StartRange(NewCall("fetchRange", [form |-> "route"]), r.rangeRef.s, cache)
    ELSE IF r.verseRef # JNull
    THEN fetchVerseStart(NewCall("fetchVerse", [form |-> "route"]), r.verseRef.s, cache)
    ELSE CallIdle

\* what the lookup gave POST: the map of fetchRange, or the reference with the value
\* of fetchVerse
FetchedMap(frame) ==
    IF frame.op = "fetchRange" /\ frame.pc = "done" THEN frame.results
    ELSE IF frame.op = "fetchVerse" /\ frame.pc = "done"
    THEN <<[key |-> frame.list[1], val |-> frame.ret]>>
    ELSE <<>>

\* the entries POST builds its reference messages from: those whose text is not null
\* (fetchRange), the verse if its text is truthy (fetchVerse)
VerseEntries(frame) ==
    IF frame.op = "fetchRange" THEN SelectSeq(FetchedMap(frame), HasText)
    ELSE SelectSeq(FetchedMap(frame), TruthyText)

\* the capabilities a settled bibleApi call has used
LookupLog(frame) ==
    IF frame.op = "none" THEN <<>>
    ELSE <<frame.op>> \o [k \in 1..Len(frame.issued) |-> "bible-api"]

\* an assembly that appends the reference messages where it finds the list's end
Assemble_VersesLast(r, frame) ==
    LET messages == r.messages \o MapSeq(VerseEntries(frame), ReferenceMessage)
                    \o <<Msg("user", r.question)>>
        r1 == [r EXCEPT !.messages = messages, !.map = FetchedMap(frame),
                        !.log = @ \o LookupLog(frame)]
    IN  IF ~env.apiKey
        THEN Step([r1 EXCEPT !.pc = "replied"], CallIdle, Reply(500, KeyMissing))
        ELSE Step([r1 EXCEPT !.pc = "model", !.history = messages,
                             !.log = Append(@, "chats.create")],
                  CallIdle, NoReply)

\* routes.ts, from messages.unshift(...verseMessages) to ai.chats.create(...): the
\* reference messages go to the front, the question to the end; without a key the
\* reply is a 500, with one the history is handed to the model
Assemble(r, frame) ==
    LET messages == MapSeq(VerseEntries(frame), ReferenceMessage)
                    \o r.messages \o <<Msg("user", r.question)>>
        r1 == [r EXCEPT !.messages = messages, !.map = FetchedMap(frame),
                        !.log = @ \o LookupLog(frame)]
    IN  IF ~env.apiKey
        THEN Step([r1 EXCEPT !.pc = "replied"], CallIdle, Reply(500, KeyMissing))
        ELSE Step([r1 EXCEPT !.pc = "model", !.history = messages,
                             !.log = Append(@, "chats.create")],
                  CallIdle, NoReply)

\* routes.ts, from the context messages on: the reference lookup, awaited if one is made
AfterContext(r, cache) ==
    LET frame == VerseLookup(r, cache)
    IN  IF frame.op = "none" THEN Assemble(r, frame)
        ELSE Step([r EXCEPT !.pc = "verse"], frame, NoReply)

\* routes.ts, after await retrieveRagContext(question): the snippets become context
\* messages, or the route asks searchWeb itself (its configuration check included)
AfterRag(r, snippets, cache) ==
    LET r1 == [r EXCEPT !.log = @ \o ragLog, !.snippets = snippets]
    IN  IF Len(snippets) > 0
        THEN AfterContext([r1 EXCEPT !.messages = @ \o MapSeq(snippets, RelatedMessage)],
                          cache)
        ELSE IF ~env.web
        THEN AfterContext([r1 EXCEPT !.log = Append(@, "searchWeb")], cache)
        ELSE Step([r1 EXCEPT !.pc = "web", !.log = @ \o <<"searchWeb", "fetch">>],
                  CallIdle, NoReply)

\* routes.ts, the mock reply: the reference found and its text, or the canned text
MockReply(frame, rangeRef) ==
    LET entries == VerseEntries(frame)
        line(e) == e.key \o <<":", " ">> \o e.val.s
        combined == JoinWith(MapSeq(entries, line), <<"\n">>)
    IN  IF frame.pc = "threw" THEN Reply(500, <<"e", "r", "r">>)
        ELSE IF entries = <<>> THEN Reply(200, CannedText)
        ELSE IF frame.op = "fetchRange"
        THEN Reply(200, FoundPrefix \o rangeRef.s \o Dash \o combined)
        ELSE Reply(200, FoundPrefix \o entries[1].key \o Dash \o entries[1].val.s)

\* the bodies the model call may settle with in a request
RouteModelOutcomes ==
    { [k |-> "throw"] }
    \cup
    { [k |-> "response", v |-> v] :
        v \in { JNull,
                JObj([text |-> JStr(<<"t">>)]),
                JObj([output |-> JArr(<<JNull>>)]),
                JObj([choices |-> JArr(<<MessageBearer>>)]) } }

\* the ways a lookup of bible-api.com ends in a request
RouteLookupOutcomes == {"ok", "notOk", "network"}

\* the outcomes of the tiers of retrieveRagContext in a request
RouteRpcOutcomes == {o \in RpcOutcomes : o.k # "rows" \/ Len(o.rows) <= MaxRouteRows}
RouteTextResponses ==
    {o \in TextResponses : o.k # "rows" \/ Len(o.rows) <= MaxRouteRows}
RouteWebOutcomes ==
    {o \in WebHttpOutcomes :
        o.k # "json" \/ ~IsArr(Get(Get(o.body, "webPages"), "value"))
        \/ Len(Get(Get(o.body, "webPages"), "value").a) <= MaxRouteRows}

\* POST after await request.json(): the body is parsed
RouteReceives(body) ==
    LET parsed == parseRequest(body)
    IN  /\ route.pc = "idle"
        /\ route' = IF parsed.error # "none"
                    THEN [route EXCEPT !.pc = "parsed", !.error = parsed.error]
                    ELSE [route EXCEPT !.pc = "parsed",
                                       !.question = parsed.question,
                                       !.contents = parsed.contents,
                                       !.devMock = parsed.devMock,
                                       !.flag = Get(body, "devMock"),
                                       !.rangeRef = RangeRefOf(parsed.question),
                                       !.verseRef =
                                           extractFirstVerseReference(parsed.question)]
        /\ UNCHANGED <<exPc, modelResp, exOut, httpOut, ragVars, bibleVars>>

\* POST: the body was rejected by parseRequest
RouteRejects ==
    /\ route.pc = "parsed"
    /\ route.error # "none"
    /\ route' = [route EXCEPT !.pc = "replied"]
    /\ httpOut' = Reply(400, <<"b", "a", "d">>)
    /\ UNCHANGED <<exPc, modelResp, exOut, ragVars, bibleVars>>

\* POST in mock mode, up to the reply or to the await of the reference lookup
RouteMock ==
    LET frame == VerseLookup(route, CACHE)
    IN  /\ route.pc = "parsed"
        /\ route.error = "none"
        /\ DevMock(route.server, route.devMock)
        /\ IF frame.op = "none"
           THEN /\ route' = [route EXCEPT !.pc = "replied"]
                /\ httpOut' = MockReply(frame, route.rangeRef)
                /\ UNCHANGED calls
           ELSE /\ route' = [route EXCEPT !.pc = "mock"]
                /\ calls' = [calls EXCEPT ![1] = frame]
                /\ UNCHANGED httpOut
        /\ UNCHANGED <<exPc, modelResp, exOut, ragVars, CACHE>>

\* POST in mock mode, after the reference lookup has settled
RouteMockReturns ==
    /\ route.pc = "mock"
    /\ calls[1].pc \in {"done", "threw"}
    /\ route' = [route EXCEPT !.pc = "replied", !.log = @ \o LookupLog(calls[1])]
    /\ httpOut' = MockReply(calls[1], route.rangeRef)
    /\ calls' = [calls EXCEPT ![1] = CallIdle]
    /\ UNCHANGED <<exPc, modelResp, exOut, ragVars, CACHE>>

\* POST outside mock mode, up to await retrieveRagContext(question)
RouteBegins ==
    /\ route.pc = "parsed"
    /\ route.error = "none"
    /\ ~DevMock(route.server, route.devMock)
    /\ route' = [route EXCEPT !.pc = "rag",
                              !.messages = InitialMessages(route.contents)]
    /\ RetrieveBegin(route.question)
    /\ UNCHANGED <<exPc, modelResp, exOut, httpOut, bibleVars>>

\* the step of one Step value: the frames and the reply it leaves
TakeStep(out) ==
    /\ route' = out.route
    /\ calls' = [calls EXCEPT ![1] = out.frame]
    /\ httpOut' = out.reply
    /\ UNCHANGED <<exPc, modelResp, exOut, CACHE>>

\* POST after retrieveRagContext has returned
RouteAfterRag ==
    /\ route.pc = "rag"
    /\ ragPc = "done"
    /\ TakeStep(AfterRag(route, ragResult, CACHE))
    /\ SetRag(RagIdle)
    /\ ragQuery' = <<>>
    /\ UNCHANGED env

\* POST after its own searchWeb has returned
RouteWebReturns(http) ==
    LET web == SearchWebParse(http, RouteWebTopK)
    IN  /\ route.pc = "web"
        /\ TakeStep(AfterContext([route EXCEPT !.web = web,
                                                !.messages = @ \o WebMessages(web)],
                                  CACHE))
        /\ UNCHANGED ragVars

\* POST after fetchRange or fetchVerse has settled
RouteVerseReturns ==
    /\ route.pc = "verse"
    /\ calls[1].pc \in {"done", "threw"}
    /\ TakeStep(Assemble(route, calls[1]))
    /\ UNCHANGED ragVars

\* ai.chats.create settles: POST replies with the generic error, or goes on to
\* extractText
RouteModelReturns(o) ==
    /\ route.pc = "model"
    /\ IF o.k = "throw"
       THEN /\ route' = [route EXCEPT !.pc = "replied"]
            /\ httpOut' = Reply(500, GenericError)
            /\ UNCHANGED <<exPc, modelResp>>
       ELSE /\ route' = [route EXCEPT !.pc = "extract"]
            /\ exPc' = "ready"
            /\ modelResp' = o.v
            /\ UNCHANGED httpOut
    /\ UNCHANGED <<exOut, ragVars, bibleVars>>

\* the reply has been sent; the handler is ready for the next request
RouteEnds ==
    /\ route.pc = "replied" \/ (route.pc = "extract" /\ exPc = "done")
    /\ route' = [RouteIdle EXCEPT !.server = route.server]
    /\ exPc' = "off"
    /\ modelResp' = JNull
    /\ exOut' = [threw |-> FALSE, text |-> <<>>]
    /\ httpOut' = NoReply
    /\ UNCHANGED <<ragVars, bibleVars>>

InitRoute ==
    /\ BibleOff
    /\ route \in {[RouteIdle EXCEPT !.server = sv] : sv \in Servers}
    /\ exPc = "off"
    /\ modelResp = JNull
    /\ exOut = [threw |-> FALSE, text |-> <<>>]
    /\ httpOut = NoReply
    /\ env \in [apiKey : BOOLEAN, rpc : BOOLEAN, web : BOOLEAN]
    /\ ragQuery = <<>>
    /\ ragPc = "idle"
    /\ ragLog = <<>>
    /\ vect = NoResponse
    /\ textResp = NoResponse
    /\ webOut = NoResponse
    /\ ragResult = <<>>
    /\ ragThrew = FALSE

NextRoute ==
    \/ \E body \in RequestBodies : RouteReceives(body)
    \/ RouteRejects
    \/ RouteMock
    \/ RouteMockReturns
    \/ RouteBegins
    \/ \E o \in EmbedOutcomes : EmbedReturns(o)
    \/ \E o \in RouteRpcOutcomes : RpcReturns(o)
    \/ \E resp \in RouteTextResponses : QsdTextReturns(resp)
    \/ \E resp \in RouteTextResponses : RagTextReturns(resp)
    \/ \E http \in RouteWebOutcomes : WebHttpReturns(http)
    \/ RouteAfterRag
    \/ \E http \in RouteWebOutcomes : RouteWebReturns(http)
    \/ \E o \in RouteLookupOutcomes : \E i \in calls[1].pending : VerseSettles(1, i, o)
    \/ RouteVerseReturns
    \/ \E o \in RouteModelOutcomes : RouteModelReturns(o)
    \/ ExtractAndReply
    \/ RouteEnds

SpecRoute == InitRoute /\ [][NextRoute]_vars

----------------------------------------------------------------------------
(* Properties of POST *)

\* the model has been handed a history in the request in progress
ModelInvoked == \E k \in 1..Len(route.log) : route.log[k] = "chats.create"

\* the positions of the fetched map that hold a text, in key order
TextKeys(map) == SelectSeq([k \in 1..Len(map) |-> k], LAMBDA k : IsStr(map[k].val))

\* the number of messages that stand for the conversation so far
PriorCount(contents) == IF contents = <<>> THEN 2 ELSE Len(contents)

\* the number of context messages: one per retrieved snippet, or the note and one
\* per web result
ContextCount(r) ==
    IF Len(r.snippets) > 0 THEN Len(r.snippets)
    ELSE IF Len(r.web) > 0 THEN 1 + Len(r.web)
    ELSE 0

\* C15: whenever the model is handed a history, the history is the reference
\* messages "Reference {ref}: {text}" in the key order of the fetched map, then the
\* preamble pair if there are no prior turns and else the prior turns in their order
\* with every role but user turned into model, then the context messages, then the
\* question as the last message, and nothing else
C15_HistoryOrder ==
    ModelInvoked =>
        LET h == route.history
            keys == TextKeys(route.map)
            n == Len(keys)
            p == PriorCount(route.contents)
            c == ContextCount(route)
        IN  /\ Len(h) = n + p + c + 1
            /\ \A k \in 1..n :
                  /\ h[k].role = "user"
                  /\ h[k].parts = ReferencePrefix \o route.map[keys[k]].key
                                  \o <<":", " ">> \o route.map[keys[k]].val.s
            /\ IF route.contents = <<>>
               THEN /\ h[n + 1] = [role |-> "user", parts |-> SYSTEM_PROMPT]
                    /\ h[n + 2] = [role |-> "model", parts |-> ReadyText]
               ELSE \A k \in 1..p :
                      /\ h[n + k].parts = Get(route.contents[k], "content").s
                      /\ h[n + k].role =
                            IF Get(route.contents[k], "role") = JStr(<<"user">>)
                            THEN "user" ELSE "model"
            /\ \A k \in 1..c :
                  /\ h[n + p + k].role = "system"
                  /\ Len(route.snippets) > 0 =>
                        Occurs(route.snippets[k].s, h[n + p + k].parts)
                  /\ (Len(route.snippets) = 0 /\ k > 1) =>
                        Occurs(route.web[k - 1].s, h[n + p + k].parts)
            /\ h[Len(h)] = [role |-> "user", parts |-> route.question]

\* a history with two reference messages, prior turns and retrieved context
C15_Witness ==
    /\ ModelInvoked
    /\ Len(TextKeys(route.map)) = 2
    /\ route.contents # <<>>
    /\ ContextCount(route) > 0

\* the request in progress is well-formed and its question names no reference: neither
\* the range pattern nor the pattern "Book chapter:verse" matches it
NoReferenceAsked ==
    /\ route.pc # "idle"
    /\ route.error = "none"
    /\ RangeRefOf(route.question) = JNull
    /\ extractFirstVerseReference(route.question) = JNull

VerseCapabilities == {"fetchRange", "fetchVerse", "bible-api"}

\* C16: while a request whose question matches neither pattern is served, in mock
\* mode or not, no bibleApi call is made and no request goes to the verse service;
\* and outside mock mode, with a model key, the handler does not get past the
\* reference step without handing the history to the model
C16_NoLookupWithoutReference ==
    NoReferenceAsked =>
        /\ \A s \in Slots : calls[s] = CallIdle
        /\ \A k \in 1..Len(route.log) : route.log[k] \notin VerseCapabilities
        /\ ( /\ route.pc \in {"model", "extract", "replied"}
             /\ ~DevMock(route.server, route.devMock)
             /\ env.apiKey )
           => ModelInvoked

\* the near miss "J 1:1a" was asked and the model has answered
C16_Witness ==
    /\ NoReferenceAsked
    /\ route.question = <<"J", " ", "1", ":", "1", "a">>
    /\ ModelInvoked
    /\ exPc = "done"

----------------------------------------------------------------------------
(* Properties of searchWeb *)

\* the HTTP exchange of searchWeb has ended
Exchanged == webOut.k # "none" /\ "http" \in DOMAIN webOut

\* the body holds an array at webPages.value
HasCollection(body) ==
    /\ body.t = "obj" /\ "webPages" \in DOMAIN body.f
    /\ HasArrayField(body.f.webPages, "value")

\* the exchange ended in an environmental failure: a non-success status, a network
\* exception, a body that is not JSON, or a body without the result collection
EnvironmentalFailure(http) ==
    \/ http.k \in {"notOk", "network", "badJson"}
    \/ http.k = "json" /\ ~HasCollection(http.body)

\* C19: for a non-empty query searchWeb never throws to its caller, and each
\* environmental failure of its HTTP exchange (non-success status, network
\* exception, malformed JSON, no result collection at webPages.value) makes it
\* return the empty list
C19_FailuresContained ==
    /\ (ragQuery # <<>> /\ Invoked("searchWeb")) => webOut.k # "threw"
    /\ (Exchanged /\ EnvironmentalFailure(webOut.http)) =>
          /\ webOut.k = "list" /\ webOut.v = <<>>
          /\ ~ragThrew

\* searchWeb has returned after a body that was not JSON
C19_Witness ==
    /\ Exchanged
    /\ webOut.http.k = "badJson"
    /\ webOut.k = "list"
    /\ ragPc = "done"

\* C20: with an empty query searchWeb throws to its caller instead of returning a
\* list, with or without a configured endpoint and credential, and no HTTP request
\* has been issued
C20_EmptyQueryThrows ==
    (ragQuery = <<>> /\ Invoked("searchWeb")) =>
        /\ webOut = [k |-> "threw"]
        /\ ~Invoked("fetch")

\* searchWeb was called with the empty query while no provider is configured
C20_Witness ==
    /\ ragQuery = <<>>
    /\ Invoked("searchWeb")
    /\ ~env.web
    /\ webOut.k = "threw"

\* C21: without a provider (the endpoint or the credential is missing, env.web is
\* false) searchWeb returns the empty list for every non-empty query and issues no
\* HTTP request
C21_NoProviderNoRequest ==
    (~env.web /\ ragQuery # <<>>) =>
        /\ ~Invoked("fetch")
        /\ ragPc # "webHttp"
        /\ Invoked("searchWeb") => webOut = [k |-> "list", v |-> <<>>]

\* searchWeb was reached with a non-empty query and no provider
C21_Witness ==
    /\ ~env.web
    /\ ragQuery # <<>>
    /\ Invoked("searchWeb")
    /\ ragPc = "done"

----------------------------------------------------------------------------
(* Properties of the lists retrieveRagContext returns *)

\* res takes elements of src in the order of src
OrderedPick(res, src) ==
    \E f \in [1..Len(res) -> 1..Len(src)] :
        /\ \A i \in 1..Len(res) : res[i] = src[f[i]]
        /\ \A i \in 1..(Len(res) - 1) : f[i] < f[i + 1]

\* the items the search endpoint returned, none without a collection
WebSource ==
    IF Exchanged /\ webOut.http.k = "json" /\ HasCollection(webOut.http.body)
    THEN webOut.http.body.f.webPages.f.value.a
    ELSE <<>>

\* the display string of each item, in the order of the endpoint
WebSourceTexts ==
    [k \in 1..Len(WebSource) |->
        IF WebSource[k].t = "obj" THEN JStr(WebItemText(WebSource[k])) ELSE JNull]

\* C22: a list retrieveRagContext returns has at most 3 snippets, each a string that
\* is non-empty after trim; from the vector or the full-text tier it is the first
\* three of the rows left after the rows with null or blank content are skipped, in
\* their order; from the web tier its snippets follow the order of the endpoint's items
C22_SnippetLists ==
    ragPc = "done" =>
        /\ Len(ragResult) <= 3
        /\ \A i \in 1..Len(ragResult) : HasInk(ragResult[i])
        /\ IF VectorUsable THEN ragResult = FirstThree(VectorSnippets)
           ELSE IF TextUsable THEN ragResult = FirstThree(InkOnly(textResp.rows))
           ELSE OrderedPick(ragResult, WebSourceTexts)

\* the full-text tier returned four rows, the first of them blank, and three were kept
C22_Witness ==
    /\ ragPc = "done" /\ ~VectorUsable /\ TextUsable
    /\ Len(textResp.rows) = 4 /\ ~HasInk(textResp.rows[1])
    /\ Len(ragResult) = 3

\* the web tier returned two snippets of a response with a useless item between them
C22_WebWitness ==
    /\ ragPc = "done" /\ ~VectorUsable /\ ~TextUsable
    /\ Len(WebSource) = 3 /\ WebSource[2] = JNull
    /\ Len(ragResult) = 2

----------------------------------------------------------------------------
(* Properties of POST: mock mode and failures *)

JTrue == [t |-> "bool", b |-> TRUE]

\* mock mode as the claim defines it: DEV_MOCK is 'true', or NODE_ENV is
\* 'development' and the posted body carries devMock = true
MockMode ==
    \/ route.server.DEV_MOCK
    \/ route.server.development /\ route.flag = JTrue

\* the handler has got past the point where the model is called
PastModelCall == route.pc \in {"model", "extract", "replied"}

\* C23: the model is invoked only with mock mode off; in mock mode the handler never
\* enters the retrieval and never invokes the model; and a devMock flag posted to a
\* server that is not in development does not keep a valid request from the model
C23_MockGatesModel ==
    /\ ModelInvoked => ~MockMode
    /\ (route.pc # "idle" /\ MockMode) =>
          /\ ~ModelInvoked
          /\ route.pc \in {"parsed", "mock", "replied"}
    /\ ( /\ ~route.server.DEV_MOCK /\ ~route.server.development
         /\ route.flag = JTrue
         /\ route.error = "none" /\ env.apiKey
         /\ PastModelCall )
       => ModelInvoked

\* a request with devMock = true was answered by the model on a production server
C23_Witness ==
    /\ ~route.server.DEV_MOCK /\ ~route.server.development
    /\ route.flag = JTrue
    /\ ModelInvoked
    /\ exPc = "done"

\* a valid request is being served outside mock mode with a model key configured
ServedByModel ==
    /\ route.pc \notin {"idle", "parsed"}
    /\ route.error = "none"
    /\ ~MockMode
    /\ env.apiKey

\* ai.chats.create has thrown in the request in progress
ModelCallFailed == ModelInvoked /\ route.pc = "replied"

\* no reference message of the history names a reference whose lookup gave no text
OnlyFetchedVerses ==
    \A k \in 1..Len(route.map) :
        ~IsStr(route.map[k].val) =>
            \A i \in 1..Len(route.history) :
                ~Occurs(ReferencePrefix \o route.map[k].key, route.history[i].parts)

\* C24 as stated: for a valid non-mock request with a model key, no failure of a
\* verse lookup, of a retrieval tier or of the web search produces an error reply or
\* keeps the handler from the model call, and only fetched verses become reference
\* messages; an error reply is produced only when the model call itself fails, and
\* it is the fixed generic message.
C24_AsStated ==
    ServedByModel =>
        /\ PastModelCall => ModelInvoked
        /\ OnlyFetchedVerses
        /\ httpOut.status \in {0, 200} \/ ModelCallFailed
        /\ httpOut.status \notin {0, 200} => httpOut = Reply(500, GenericError)

\* what does hold of the code: the same, with the error reply also produced when
\* extractText throws on the response of a model call that succeeded
FailuresContained ==
    ServedByModel =>
        /\ PastModelCall => ModelInvoked
        /\ OnlyFetchedVerses
        /\ httpOut.status \in {0, 200} \/ ModelCallFailed
           \/ (exPc = "done" /\ exOut.threw)
        /\ httpOut.status \notin {0, 200} => httpOut = Reply(500, GenericError)

\* every tier and the verse lookup failed, and the model answered all the same
AllFailedYetAnswered ==
    /\ ServedByModel
    /\ route.rangeRef # JNull /\ route.map # <<>>
    /\ \A k \in 1..Len(route.map) : ~IsStr(route.map[k].val)
    /\ route.snippets = <<>> /\ route.web = <<>>
    /\ \E k \in 1..Len(route.log) : route.log[k] = "fetch"
    /\ httpOut.status = 200

----------------------------------------------------------------------------
(* Properties of POST: the web-sourced context *)

\* the capability has been invoked in the request in progress (the invocations of
\* retrieveRagContext are in the log once it has returned)
RouteInvoked(cap) == \E k \in 1..Len(route.log) : route.log[k] = cap

\* the context of the history comes from the web tier: from the handler's own
\* searchWeb, or from the searchWeb that retrieveRagContext runs as its last tier
\* and whose list it returns as its snippets
WebOrigin ==
    \/ route.web # <<>>
    \/ route.snippets # <<>> /\ RouteInvoked("searchWeb")

\* the context messages of the history: what stands between the messages of the
\* conversation so far and the question
ContextOf(h) ==
    LET from == Len(TextKeys(route.map)) + PriorCount(route.contents) + 1
    IN  SubSeq(h, from, Len(h) - 1)

\* text begins with prefix
StartsWith(text, prefix) ==
    Len(text) >= Len(prefix) /\ SubSeq(text, 1, Len(prefix)) = prefix

\* the k-th context message is the i-th numbered web message, its body bounded
NumberedWeb(m, i) ==
    LET label == WebPrefix \o Dec(i) \o <<"]", ":", " ">>
    IN  /\ m.role = "system"
        /\ StartsWith(m.parts, label)
        /\ \/ Len(m.parts) <= Len(label) + WebMaxLen
           \/ Occurs(SourceOpen, m.parts)

\* the context is one guidance message followed by numbered web messages
MarkedWeb(ctx) ==
    /\ Len(ctx) >= 2
    /\ ctx[1] = [role |-> "system", parts |-> WebNote]
    /\ \A k \in 2..Len(ctx) : NumberedWeb(ctx[k], k - 1)

\* C25 as stated: whenever the context messages of an assembled history originate
\* from the web tier, they are one introductory guidance message followed by
\* numbered "Web context [i]" messages whose body has at most 200 characters, a
\* detected URL moved from the body to the source.
C25_AsStated ==
    (ModelInvoked /\ WebOrigin) => MarkedWeb(ContextOf(route.history))

\* what does hold of the code: the results of the handler's own searchWeb are marked
OwnWebResultsMarked ==
    (ModelInvoked /\ route.web # <<>>) => MarkedWeb(ContextOf(route.history))

\* the handler's own searchWeb gave a result, which the model was handed
OwnWebResultsHanded == ModelInvoked /\ route.web # <<>>

----------------------------------------------------------------------------
(* Properties of fetchRange: a chapter whose length could not be obtained *)

\* the key of a chapter-length entry
IsChapterLenKey(k) == StartsWith(k, ChapterLenPrefix)

\* the chapters whose length a cross-chapter range asks for: the start chapter and
\* the chapters strictly between start and end
LengthChapters(i) == {i.c1} \cup {ch \in 1..MaxChapter : i.c1 < ch /\ ch < i.c2}

\* the length of chapter ch is not in the cache: its lookup, if made, failed
LengthMissing(book, ch) == ChapterLenKey(book \o <<" ">> \o Numeral(ch)) \notin DOMAIN CACHE

\* what the expansion of chapter ch adds to the list once its length is known
ChapterExpansion(i, ch) ==
    {RefText(i.book, ch, v) : v \in (IF ch = i.c1 THEN i.v1 ELSE 1)..ChapterVerses(ch)}

EndChapterRefs(i) == {RefText(i.book, i.c2, v) : v \in 1..i.v2}

----------------------------------------------------------------------------
(* Properties of the cache: verse texts and chapter lengths in one object *)

\* the call in slot s looked up a reference of its list in the cache and found an
\* entry whose key is spelled as a chapter-length key
ReadsChapterLength(s) ==
    \E k \in 1..Len(calls[s].list) :
        /\ IsChapterLenKey(calls[s].list[k])
        /\ calls[s].list[k] \in DOMAIN calls[s].warm

Counts == {Dec(n) : n \in 1..MaxVerse}

\* C27: no reference string that fetchVerse, fetchVerses or fetchRange accepts
\* reads a chapter-length entry of the cache or writes one, and no chapter-length
\* lookup reads or writes a verse-text entry: a chapter-length entry holds a count,
\* every other entry a verse text, and no call finds a chapter-length entry under
\* its reference.
C27_AsStated ==
    /\ \A s \in Slots : ~ReadsChapterLength(s)
    /\ \A k \in DOMAIN CACHE :
          IF IsChapterLenKey(k) THEN CACHE[k] \in Counts ELSE CACHE[k] = ServiceText(k)

\* the two kinds of entries stay apart as long as the references are of the form
\* "Book C:V": the only call that finds a chapter-length entry is one whose
\* reference is spelled as a chapter-length key, and the entries keep their kind
WellFormedReferencesApart ==
    /\ \A s \in Slots : ReadsChapterLength(s) => calls[s].intent.form = "lenkey"
    /\ \A k \in DOMAIN CACHE :
          IF IsChapterLenKey(k) THEN CACHE[k] \in Counts ELSE CACHE[k] = ServiceText(k)

\* a fetchVerse of `__chapterlen__Book C` has returned the cached verse count of
\* the chapter as the text of a verse
CountReturnedAsVerse ==
    \E s \in Slots :
        /\ calls[s].op = "fetchVerse"
        /\ calls[s].pc = "done"
        /\ ReadsChapterLength(s)
        /\ calls[s].ret \in {JStr(n) : n \in Counts}

----------------------------------------------------------------------------
(* Properties of POST: how often the web search is invoked *)

\* how many times the capability was invoked for the request in progress
RouteTimesInvoked(cap) == Cardinality({k \in 1..Len(route.log) : route.log[k] = cap})

\* C28: while one chat request is processed the web search is invoked at most once,
\* the invocation made as the last tier of retrieveRagContext and the handler's own
\* fallback invocation counted together.
C28_AsStated == RouteTimesInvoked("searchWeb") <= 1

\* the web search is invoked at most twice for a request, and a second time only by
\* the handler after retrieveRagContext, its own web search included, gave nothing
WebSearchAtMostTwice ==
    /\ RouteTimesInvoked("searchWeb") <= 2
    /\ RouteTimesInvoked("searchWeb") = 2 => route.snippets = <<>>

\* two requests went to the search endpoint for one question, and the handler's own
\* brought the results that the one inside retrieveRagContext had not
SearchedTwice ==
    /\ RouteTimesInvoked("fetch") = 2
    /\ route.snippets = <<>>
    /\ route.web # <<>>

----------------------------------------------------------------------------
(* Properties of retrieveRagContext: how often the full-text search is queried *)

\* the full-text queries of one call: the fallback inside querySimilarDocuments and
\* the full-text tier of retrieveRagContext
FullTextQueries == TimesInvoked("qsd.textSearch") + TimesInvoked("rag.textSearch")

\* C29: during one retrieveRagContext call the full-text search is queried at most
\* once, the fallback inside querySimilarDocuments and the full-text tier of
\* retrieveRagContext counted together.
C29_AsStated == FullTextQueries <= 1

\* each of the two places queries at most once, querySimilarDocuments first, and the
\* tier of retrieveRagContext repeats the query only after the fallback inside
\* querySimilarDocuments gave no usable row
FullTextAtMostTwice ==
    /\ TimesInvoked("qsd.textSearch") <= 1
    /\ TimesInvoked("rag.textSearch") <= 1
    /\ FullTextQueries = 2 => (vect.k = "results" /\ vect.via = "text"
                                /\ VectorTexts(vect.results) = <<>>)

\* the same query went to the full-text search twice and the call has returned the
\* snippets the second answer held
QueriedTwice ==
    /\ ragPc = "done"
    /\ FullTextQueries = 2
    /\ ~ragThrew
    /\ ragResult # <<>>
    /\ ~Invoked("searchWeb")

----------------------------------------------------------------------------
(* Properties of the cache: its entries under interleaved calls *)

\* the verse-text entries: the keys that are not chapter-length keys
VerseKeys(cache) == {k \in DOMAIN cache : ~IsChapterLenKey(k)}

\* every entry of the cache before the step is there, unchanged, after it
EntriesKept ==
    \A k \in DOMAIN CACHE : k \in DOMAIN CACHE' /\ CACHE'[k] = CACHE[k]

\* the step is clearCache(): the cache is emptied and no call moves
IsClearCache == CACHE' = EmptyCache /\ calls' = calls

====
